---------------------------- MODULE Spec2Model ----------------------------
(***************************************************************************)
(* A model of the installed-state database of apk-tools (database.c):      *)
(* the reference-counted directory tree, the global file index, the FDB    *)
(* text codec, the per-entry installer, the migrator and the purger.       *)
(*                                                                         *)
(* Conventions                                                             *)
(*  - a blob / C string is a sequence of one-character strings; "^" stands *)
(*    for a control character (a byte < 0x20 or 0x7f);                      *)
(*  - directory names are abbreviated to one letter per path segment:      *)
(*    "e" is etc, "e/a" is etc/apk, "e/i" is etc/init.d, "u" is usr;       *)
(*  - a pointer to a heap object is the object's key in the heap function  *)
(*    (db.dirs, db.diris, db.files); 0 / NULLDIR / NULLPKG are the NULL    *)
(*    pointers of the three pointer types;                                 *)
(*  - a C function that changes the database is an operator from a        *)
(*    database value to a database value (and a result where it has one);  *)
(*  - Result({ v : x \in {e}, y \in {f} }) is the value v of a block whose   *)
(*    locals are x = e and y = f.                                          *)
(***************************************************************************)
EXTENDS Integers, Sequences, FiniteSets, TLC

VARIABLES
    dbs,    \* struct apk_database, with the filesystem below db->root_fd
    held,   \* references to Dirs handed out by apk_db_dir_get to outside callers
    ctx,    \* struct install_ctx of the running apk_db_install_pkg, and its phase
    hist    \* what the last handler decided (control actions, skipped entries)

vars == <<dbs, held, ctx, hist>>

Result(S) == CHOOSE r \in S : TRUE

Range(l) == {l[i] : i \in 1..Len(l)}

---------------------------------------------------------------------------
(* Blobs *)

SLASH == "/"

\* Index of the last / first occurrence of ch in blob b, 0 when there is none.
LastIdx(b, ch) ==
    LET S == {i \in 1..Len(b) : b[i] = ch}
    IN  IF S = {} THEN 0 ELSE CHOOSE i \in S : \A j \in S : j <= i

FirstIdx(b, ch) ==
    LET S == {i \in 1..Len(b) : b[i] = ch}
    IN  IF S = {} THEN 0 ELSE CHOOSE i \in S : \A j \in S : j >= i

\* apk_blob_rsplit(b, '/', &l, &r): found, left part, right part.
apk_blob_rsplit(b) ==
    LET i == LastIdx(b, SLASH)
    IN  [found |-> i # 0,
         l     |-> IF i = 0 THEN <<>> ELSE SubSeq(b, 1, i - 1),
         r     |-> IF i = 0 THEN b ELSE SubSeq(b, i + 1, Len(b))]

\* if (name.len && name.ptr[name.len-1] == '/') name.len--;
StripSlash(name) ==
    IF Len(name) > 0 /\ name[Len(name)] = SLASH
    THEN SubSeq(name, 1, Len(name) - 1)
    ELSE name

\* The hash of a blob.  The table is modelled without collisions: two blobs
\* share a bucket iff they are the same bytes.
apk_blob_hash(b) == b

\* The hash of a file key: the file name seeded with the directory's hash.
apk_blob_hash_seed(filename, dirhash) == <<filename, dirhash>>

\* fnmatch(pattern, string, FNM_PATHNAME) for a pattern without wildcards.
fnmatch(pattern, string) == IF pattern = string THEN 0 ELSE 1

---------------------------------------------------------------------------
(* Enumerations and program constants *)

NULLPKG == "nopkg"

\* The package apk_pkg_new returns, until a P: line names it.
NONAME == "noname"

APK_FORCE_OLD_APK == "FORCE_OLD_APK"

\* The packages of the model: A and B are named packages, O is the nameless
\* package apk_db_read_overlay creates (pkg->name == NULL).
Pkgs == {"A", "B", "O"}
pkg_name(p) == IF p = "O" THEN NULLPKG ELSE p

\* pkg->ipkg == NULL
NULLIPKG == [installed |-> FALSE]
NULLDIR == [name |-> <<"\\0">>, hash |-> <<"\\0">>]

APK_DIR_FREE   == "APK_DIR_FREE"
APK_DIR_REMOVE == "APK_DIR_REMOVE"

APK_PROTECT_NONE          == "NONE"
APK_PROTECT_IGNORE        == "IGNORE"
APK_PROTECT_CHANGED       == "CHANGED"
APK_PROTECT_SYMLINKS_ONLY == "SYMLINKS_ONLY"
APK_PROTECT_ALL           == "ALL"

apk_protect_mode_none(mode) == mode \in {APK_PROTECT_NONE, APK_PROTECT_IGNORE}

APK_SIMULATE        == "SIMULATE"
APK_PURGE           == "PURGE"
APK_CLEAN_PROTECTED == "CLEAN_PROTECTED"
APK_FORCE_OVERWRITE == "FORCE_OVERWRITE"

\* 0755 and 0644
MODE_0755 == 493
MODE_0644 == 420

Acl(mode, uid, gid, xattr) == [mode |-> mode, uid |-> uid, gid |-> gid, xattr |-> xattr]

\* mode & 07777; an atomized ACL is its value, so pointer equality is equality.
apk_db_acl_atomize(mode, uid, gid, xattr) == Acl(mode % 4096, uid, gid, xattr)

apk_default_acl_dir  == apk_db_acl_atomize(MODE_0755, 0, 0, 0)
apk_default_acl_file == apk_db_acl_atomize(MODE_0644, 0, 0, 0)

\* The mode the first character of a line of protected paths stands for.
protect_mode_char(ch) ==
    CASE ch = "-" -> APK_PROTECT_IGNORE
      [] ch = "+" -> APK_PROTECT_CHANGED
      [] ch = "@" -> APK_PROTECT_SYMLINKS_ONLY
      [] ch = "!" -> APK_PROTECT_ALL
      [] OTHER    -> APK_PROTECT_CHANGED

\* "skip leading and trailing path separators"
RECURSIVE strip_separators(_)
strip_separators(blob) ==
    IF Len(blob) > 0 /\ blob[1] = SLASH THEN strip_separators(Tail(blob))
    ELSE IF Len(blob) > 0 /\ blob[Len(blob)] = SLASH
    THEN strip_separators(SubSeq(blob, 1, Len(blob) - 1))
    ELSE blob

\* add_protected_path: db->protected_paths after the line blob.
add_protected_path(ppaths, blob) ==
    IF Len(blob) = 0 \/ blob[1] = "#" THEN ppaths
    ELSE Append(ppaths,
                [relative_pattern |->
                   strip_separators(IF blob[1] \in {"-", "+", "@", "!"}
                                    THEN Tail(blob) ELSE blob),
                 protect_mode |-> protect_mode_char(blob[1])])

\* apk_blob_for_each_segment(blob, "\n", add_protected_path, db)
RECURSIVE add_protected_paths(_, _)
add_protected_paths(ppaths, lines) ==
    IF lines = <<>> THEN ppaths
    ELSE add_protected_paths(add_protected_path(ppaths, Head(lines)), Tail(lines))

\* "+etc\n" "@etc/init.d\n" "!etc/apk\n": etc is e, init.d is i, apk is a.
DefaultProtectedLines ==
    << <<"+", "e">>, <<"@", "e", "/", "i">>, <<"!", "e", "/", "a">> >>

\* db->protected_paths of a database opened without a configuration of its
\* own and without protected_paths.d.
protected_paths == add_protected_paths(<<>>, DefaultProtectedLines)

---------------------------------------------------------------------------
(* The directory tree *)

\* A Dir as calloc leaves it.
NewDir ==
    [refs |-> 0, parent |-> NULLDIR, protect_mode |-> APK_PROTECT_NONE,
     protected_paths |-> <<>>, has_protected_children |-> FALSE, owner |-> 0,
     created |-> FALSE, modified |-> FALSE,
     permissions_ok |-> FALSE, permissions_stale |-> FALSE]

\* apk_hash_get_hashed(&db->installed.dirs, name, hash): the Dir in the bucket
\* of hash whose key compares equal to name.
dirs_get_hashed(db, name, hash) ==
    IF [name |-> name, hash |-> hash] \in DOMAIN db.dirs
    THEN [name |-> name, hash |-> hash]
    ELSE NULLDIR

\* apk_db_dir_query: apk_hash_get hashes the key it is given.
apk_db_dir_query(db, name) == dirs_get_hashed(db, name, apk_blob_hash(name))

\* A variant of dir_get_ppath that applies a single-segment pattern without
\* matching it against the basename.
dir_get_ppath_unmatched(d, pp, slash, relative_name) ==
    IF slash # 0
    THEN IF fnmatch(SubSeq(pp.relative_pattern, 1, slash - 1), relative_name) # 0
         THEN d
         ELSE [d EXCEPT
                 !.protected_paths =
                    Append(@, [relative_pattern |->
                                  SubSeq(pp.relative_pattern, slash + 1,
                                         Len(pp.relative_pattern)),
                               protect_mode |-> pp.protect_mode]),
                 !.has_protected_children =
                    @ \/ ~apk_protect_mode_none(pp.protect_mode)]
    ELSE [d EXCEPT
            !.protect_mode = pp.protect_mode,
            !.has_protected_children =
               @ \/ ~apk_protect_mode_none(pp.protect_mode)]

\* One pattern of the foreach_array_item(ppath, ppaths) loop of
\* apk_db_dir_get, applied to the Dir record d.
dir_get_ppath(d, pp, slash, relative_name) ==
    IF slash # 0
    THEN IF fnmatch(SubSeq(pp.relative_pattern, 1, slash - 1), relative_name) # 0
         THEN d
         ELSE [d EXCEPT
                 !.protected_paths =
                    Append(@, [relative_pattern |->
                                  SubSeq(pp.relative_pattern, slash + 1,
                                         Len(pp.relative_pattern)),
                               protect_mode |-> pp.protect_mode]),
                 !.has_protected_children =
                    @ \/ ~apk_protect_mode_none(pp.protect_mode)]
    ELSE IF fnmatch(pp.relative_pattern, relative_name) # 0
         THEN d
         ELSE [d EXCEPT
                 !.protect_mode = pp.protect_mode,
                 !.has_protected_children =
                    @ \/ ~apk_protect_mode_none(pp.protect_mode)]

\* The loop from pattern i on.
RECURSIVE dir_get_ppaths(_, _, _, _)
dir_get_ppaths(d, ppaths, relative_name, i) ==
    IF i > Len(ppaths) THEN d
    ELSE dir_get_ppaths(
           dir_get_ppath(d, ppaths[i], FirstIdx(ppaths[i].relative_pattern, SLASH),
                         relative_name),
           ppaths, relative_name, i + 1)

\* Where apk_db_dir_get takes the hash of the name it looks up.
dir_get_hash(rawname) == apk_blob_hash(rawname)

\* The Dir record of the new Dir dir once its parent p.dir has been looked
\* up: parent, inherited protection mode, patterns.
dir_get_inherit(p, dir, sp) ==
    Result({
      dir_get_ppaths(
        IF sp.found
        THEN [p.db.dirs[dir] EXCEPT
                !.parent = p.dir,
                !.protect_mode = pd.protect_mode,
                !.has_protected_children = ~apk_protect_mode_none(pd.protect_mode)]
        ELSE [p.db.dirs[dir] EXCEPT !.parent = p.dir],
        IF sp.found THEN pd.protected_paths ELSE p.db.protected_paths,
        sp.r, 1)
      : pd \in {p.db.dirs[p.dir]} })

\* A variant of apk_db_dir_ref that leaves the reference count alone.
apk_db_dir_ref_uncounted(db, dir) == db

\* apk_db_dir_ref
apk_db_dir_ref(db, dir) == [db EXCEPT !.dirs[dir].refs = @ + 1]

\* apk_db_dir_get past the lookup: found is what the hash gave.
RECURSIVE apk_db_dir_get(_, _)
dir_get_found(db, name, hash, found) ==
    IF found # NULLDIR /\ db.dirs[found].refs # 0
    THEN [db |-> apk_db_dir_ref(db, found), dir |-> found]
    ELSE
      Result({
        IF Len(name) = 0
        THEN [db  |-> [db1 EXCEPT !.dirs[dir].parent = NULLDIR,
                                  !.dirs[dir].has_protected_children = TRUE],
              dir |-> dir]
        ELSE Result({
               [db |-> [p.db EXCEPT !.dirs[dir] = dir_get_inherit(p, dir, sp)],
                dir |-> dir]
               : p \in {apk_db_dir_get(db1, IF sp.found THEN sp.l ELSE <<>>)} })
        : dir \in {[name |-> name, hash |-> hash]},
          sp  \in {apk_blob_rsplit(name)},
          db1 \in {[db EXCEPT
                      !.dirs = [x \in DOMAIN db.dirs \cup {[name |-> name, hash |-> hash]} |->
                                  IF x = [name |-> name, hash |-> hash]
                                  THEN [(IF found = NULLDIR THEN NewDir ELSE db.dirs[found])
                                          EXCEPT !.refs = 1]
                                  ELSE db.dirs[x]],
                      !.stats.dirs = @ + 1]} })

\* apk_db_dir_get: [db, dir]
apk_db_dir_get(db, rawname) ==
    dir_get_found(db, StripSlash(rawname), dir_get_hash(rawname),
                  dirs_get_hashed(db, StripSlash(rawname), dir_get_hash(rawname)))

RECURSIVE apk_db_dir_unref(_, _, _)

\* A variant of dir_unref_free that also takes the Dir out of the directory
\* index.
dir_unref_free_unhashing(db, dir, rmdir_mode) ==
    IF Len(dir.name) = 0
    THEN [db EXCEPT !.stats.dirs = @ - 1,
                    !.dirs = [x \in DOMAIN @ \ {dir} |-> @[x]]]
    ELSE [apk_db_dir_unref([db EXCEPT !.stats.dirs = @ - 1],
                           db.dirs[dir].parent, rmdir_mode)
            EXCEPT !.dirs = [x \in DOMAIN @ \ {dir} |-> @[x]]]

\* A variant of dir_unref_free that removes the directory also under
\* APK_SIMULATE.
dir_unref_free_simulate_blind(db, dir, rmdir_mode) ==
    IF Len(dir.name) = 0
    THEN [db EXCEPT !.stats.dirs = @ - 1,
                    !.dirs[dir].protected_paths = <<>>,
                    !.dirs[dir].created = FALSE,
                    !.dirs[dir].permissions_ok = FALSE,
                    !.dirs[dir].permissions_stale = FALSE]
    ELSE [apk_db_dir_unref(
            [db EXCEPT !.stats.dirs = @ - 1,
                       !.dirs[dir].protected_paths = <<>>,
                       !.dirs[dir].modified = IF rmdir_mode = APK_DIR_REMOVE THEN TRUE ELSE @,
                       !.rmdir = IF rmdir_mode = APK_DIR_REMOVE
                                 THEN @ \cup {dir.name} ELSE @],
            db.dirs[dir].parent, rmdir_mode)
          EXCEPT !.dirs[dir].parent = NULLDIR,
                 !.dirs[dir].created = FALSE,
                 !.dirs[dir].permissions_ok = FALSE,
                 !.dirs[dir].permissions_stale = FALSE]

\* apk_db_dir_unref once the count has dropped to zero.
dir_unref_free(db, dir, rmdir_mode) ==
    IF Len(dir.name) = 0
    THEN [db EXCEPT !.stats.dirs = @ - 1,
                    !.dirs[dir].protected_paths = <<>>,
                    !.dirs[dir].created = FALSE,
                    !.dirs[dir].permissions_ok = FALSE,
                    !.dirs[dir].permissions_stale = FALSE]
    ELSE [apk_db_dir_unref(
            [db EXCEPT !.stats.dirs = @ - 1,
                       !.dirs[dir].protected_paths = <<>>,
                       !.dirs[dir].modified = IF rmdir_mode = APK_DIR_REMOVE THEN TRUE ELSE @,
                       !.rmdir = IF rmdir_mode = APK_DIR_REMOVE /\ APK_SIMULATE \notin db.flags
                                 THEN @ \cup {dir.name} ELSE @],
            db.dirs[dir].parent, rmdir_mode)
          EXCEPT !.dirs[dir].parent = NULLDIR,
                 !.dirs[dir].created = FALSE,
                 !.dirs[dir].permissions_ok = FALSE,
                 !.dirs[dir].permissions_stale = FALSE]

\* apk_db_dir_unref
apk_db_dir_unref(db, dir, rmdir_mode) ==
    IF db.dirs[dir].refs > 1
    THEN [db EXCEPT !.dirs[dir].refs = @ - 1]
    ELSE dir_unref_free([db EXCEPT !.dirs[dir].refs = @ - 1], dir, rmdir_mode)

---------------------------------------------------------------------------
(* Installed packages (package.c) *)

\* apk_pkg_install: the ipkg of pkg, created empty when pkg has none.
apk_pkg_install(db, pkg) ==
    IF db.ipkg[pkg].installed THEN db
    ELSE [db EXCEPT !.ipkg[pkg] =
            [installed |-> TRUE, owned_dirs |-> <<>>,
             broken_files |-> FALSE, broken_script |-> FALSE,
             broken_xattr |-> FALSE, sha256_160 |-> FALSE,
             replaces_priority |-> 0, repository_tag |-> 0]]

\* apk_pkg_uninstall: frees the ipkg; its DirInstances are not touched.
apk_pkg_uninstall(db, pkg) == [db EXCEPT !.ipkg[pkg] = NULLIPKG]

APK_PKG_REPLACES_YES      == "YES"
APK_PKG_REPLACES_NO       == "NO"
APK_PKG_REPLACES_CONFLICT == "CONFLICT"

\* apk_pkg_replaces_file(a, b) / apk_pkg_replaces_dir(a, b): a file or
\* directory of an overlay or of the same name is always replaced; between
\* two named packages the answer follows their replaces metadata, which is
\* db.replaces here.
apk_pkg_replaces_file(db, a, b) ==
    IF pkg_name(a) = NULLPKG \/ pkg_name(a) = pkg_name(b)
    THEN APK_PKG_REPLACES_YES
    ELSE db.replaces[<<a, b>>]

apk_pkg_replaces_dir(db, a, b) ==
    IF pkg_name(a) = NULLPKG \/ pkg_name(a) = pkg_name(b)
    THEN APK_PKG_REPLACES_YES
    ELSE db.replaces[<<a, b>>]

---------------------------------------------------------------------------
(* DirInstances and Files *)

FreshId(heap) == CHOOSE i \in 1..(Cardinality(DOMAIN heap) + 1) : i \notin DOMAIN heap

Put(heap, id, val) == [x \in DOMAIN heap \cup {id} |-> IF x = id THEN val ELSE heap[x]]
Drop(heap, id) == [x \in DOMAIN heap \ {id} |-> heap[x]]

\* Remove the first occurrence of x from list l (hlist_del).
RECURSIVE ListDel(_, _)
ListDel(l, x) ==
    IF l = <<>> THEN <<>>
    ELSE IF Head(l) = x THEN Tail(l)
    ELSE <<Head(l)>> \o ListDel(Tail(l), x)

\* apk_db_diri_new: [db, diri]; the new DirInstance goes to the tail of the
\* package's list.
apk_db_diri_new(db, pkg, name) ==
    Result({
      [db |-> [r.db EXCEPT
                 !.diris = Put(@, diri, [pkg |-> pkg, dir |-> r.dir,
                                        acl |-> apk_default_acl_dir,
                                        owned_files |-> <<>>]),
                 !.ipkg[pkg].owned_dirs = Append(@, diri)],
       diri |-> diri]
      : diri \in {FreshId(db.diris)},
        r    \in {apk_db_dir_get(db, name)} })

\* A variant of dir_set_owner that marks nothing stale.
dir_set_owner_unmarked(db, dir, diri, stale) ==
    [db EXCEPT !.dirs[dir].owner = diri]

\* The body of apk_db_dir_apply_diri_permissions once the owner is replaced.
dir_set_owner(db, dir, diri, stale) ==
    [db EXCEPT !.dirs[dir].permissions_stale = IF stale THEN TRUE ELSE @,
               !.dirperms_stale = IF stale THEN TRUE ELSE @,
               !.dirs[dir].owner = diri]

apk_db_dir_apply_diri_permissions(db, diri) ==
    Result({
      IF owner # 0 /\ apk_pkg_replaces_dir(db, db.diris[owner].pkg, db.diris[diri].pkg)
                        # APK_PKG_REPLACES_YES
      THEN db
      ELSE dir_set_owner(db, dir, diri,
                         db.dirs[dir].permissions_ok
                         /\ (owner = 0 \/ db.diris[owner].acl # db.diris[diri].acl))
      : dir   \in {db.diris[diri].dir},
        owner \in {db.dirs[db.diris[diri].dir].owner} })

\* A variant of apk_db_diri_free that forgets the reference the DirInstance
\* holds on its Dir.
diri_free_keeping_ref(db, diri, rmdir_mode) ==
    [(IF db.dirs[db.diris[diri].dir].owner = diri
      THEN [db EXCEPT !.dirs[db.diris[diri].dir].owner = 0, !.dirowner_stale = TRUE]
      ELSE db)
     EXCEPT !.diris = Drop(@, diri)]

\* apk_db_diri_free; the caller has unlinked diri from its package's list.
apk_db_diri_free(db, diri, rmdir_mode) ==
    [apk_db_dir_unref(
       IF db.dirs[db.diris[diri].dir].owner = diri
       THEN [db EXCEPT !.dirs[db.diris[diri].dir].owner = 0, !.dirowner_stale = TRUE]
       ELSE db,
       db.diris[diri].dir, rmdir_mode)
     EXCEPT !.diris = Drop(@, diri)]

\* The name of the directory a File lives in: file->diri->dir->name.
FileDirName(db, f) == db.diris[db.files[f].diri].dir.name

\* The Files of the index in the bucket of hash that
\* apk_db_file_compare_item finds equal to the key.
files_in_bucket(db, dirname, filename, hash) ==
    {f \in DOMAIN db.index :
       /\ db.index[f] = hash
       /\ db.files[f].name = filename
       /\ FileDirName(db, f) = dirname}

\* The first of a set of heap keys, 0 (NULL) when there is none.
First(c) == IF c = {} THEN 0 ELSE CHOOSE f \in c : \A g \in c : f <= g

\* apk_hash_get_hashed(&db->installed.files, key, hash)
files_get_hashed(db, dirname, filename, hash) ==
    First(files_in_bucket(db, dirname, filename, hash))

\* apk_db_file_query: apk_hash_get hashes the key with apk_db_file_hash_key.
apk_db_file_query(db, rawdir, name) ==
    files_get_hashed(db, StripSlash(rawdir), name,
                     apk_blob_hash_seed(name, apk_blob_hash(StripSlash(rawdir))))

NOCSUM == [type |-> "NONE", data |-> 0]

\* apk_db_file_new: [db, file]; the File goes to the tail of diri's list and
\* is not in the index yet.
apk_db_file_new(db, diri, name) ==
    Result({
      [db |-> [db EXCEPT
                 !.files = Put(@, file, [name |-> name, diri |-> diri,
                                        acl |-> apk_default_acl_file,
                                        csum |-> NOCSUM]),
                 !.diris[diri].owned_files = Append(@, file)],
       file |-> file]
      : file \in {FreshId(db.files)} })

\* A variant of file_get_found that does not count the new File.
file_get_found_uncounted(db, diri, name, hash, file) ==
    IF file # 0 THEN [db |-> db, file |-> file]
    ELSE Result({
           [db |-> [n.db EXCEPT !.index = Put(@, n.file, hash)],
            file |-> n.file]
           : n \in {apk_db_file_new(db, diri, name)} })

\* apk_db_file_get past the lookup.
file_get_found(db, diri, name, hash, file) ==
    IF file # 0 THEN [db |-> db, file |-> file]
    ELSE Result({
           [db |-> [n.db EXCEPT !.index = Put(@, n.file, hash),
                                !.stats.files = @ + 1],
            file |-> n.file]
           : n \in {apk_db_file_new(db, diri, name)} })

\* apk_db_file_get: [db, file]
apk_db_file_get(db, diri, name) ==
    file_get_found(db, diri, name,
                   apk_blob_hash_seed(name, db.diris[diri].dir.hash),
                   files_get_hashed(db, db.diris[diri].dir.name, name,
                                    apk_blob_hash_seed(name, db.diris[diri].dir.hash)))

\* The first DirInstance of the list l whose Dir is named dirname, 0 when
\* there is none.
RECURSIVE diri_of_name(_, _, _)
diri_of_name(db, l, dirname) ==
    IF l = <<>> THEN 0
    ELSE IF db.diris[Head(l)].dir.name = dirname THEN Head(l)
    ELSE diri_of_name(db, Tail(l), dirname)

\* find_diri: the package's DirInstance for dirname, curdiri first.
find_diri(db, pkg, dirname, curdiri) ==
    IF curdiri # 0 /\ db.diris[curdiri].dir.name = dirname THEN curdiri
    ELSE diri_of_name(db, db.ipkg[pkg].owned_dirs, dirname)

---------------------------------------------------------------------------
(* The filesystem below the root (apk_fs.h).  db.disk maps <<dir, file>> to  *)
(* the content of the installed file, db.staged to the content extracted     *)
(* under the temporary name, db.apknew to the content of <file>.apk-new.     *)

Content(map, k) == IF k \in DOMAIN map THEN map[k] ELSE 0

APK_FS_CTRL_COMMIT == "COMMIT"
APK_FS_CTRL_APKNEW == "APKNEW"
APK_FS_CTRL_CANCEL == "CANCEL"
APK_FS_CTRL_DELETE == "DELETE"

\* apk_fsdir_file_control on the path k, whose temporary file holds c (0:
\* there is none): [db, r]; renaming a temporary file that does not exist
\* fails.
fsdir_file_control(db, k, c, ctrl) ==
    CASE ctrl = APK_FS_CTRL_COMMIT ->
           IF c = 0 THEN [db |-> db, r |-> -1]
           ELSE [db |-> [db EXCEPT !.disk = Put(@, k, c), !.staged = Drop(@, k)], r |-> 0]
      [] ctrl = APK_FS_CTRL_APKNEW ->
           IF c = 0 THEN [db |-> db, r |-> -1]
           ELSE [db |-> [db EXCEPT !.apknew = Put(@, k, c), !.staged = Drop(@, k)], r |-> 0]
      [] ctrl = APK_FS_CTRL_CANCEL ->
           [db |-> [db EXCEPT !.staged = Drop(@, k)], r |-> 0]
      [] OTHER ->
           [db |-> [db EXCEPT !.disk = Drop(@, k)], r |-> 0]

apk_fsdir_file_control(db, dirname, filename, ctrl) ==
    fsdir_file_control(db, <<dirname, filename>>,
                       Content(db.staged, <<dirname, filename>>), ctrl)

\* apk_fs_extract of a regular file: the content is written under the
\* temporary name unless the extraction fails before it is complete.
apk_fs_extract(db, dirname, filename, ae) ==
    IF ae.r \in {"OK", "ENOTSUP"}
    THEN [db EXCEPT !.staged = Put(@, <<dirname, filename>>, ae.content)]
    ELSE db

\* apk_fsdir_priority: the directory u and what is below it are uvol
\* volumes, every other directory is on the disk.  APK_FS_PRIO_DONE is the
\* 0xff that ends the passes of the migrator.
APK_FS_PRIO_DISK == 0
APK_FS_PRIO_UVOL == 1
APK_FS_PRIO_DONE == 255
apk_fsdir_priority(dirname) ==
    IF Len(dirname) > 0 /\ dirname[1] = "u" THEN APK_FS_PRIO_UVOL ELSE APK_FS_PRIO_DISK

\* apk_db_audit_file given the content c of the file on disk (0: ENOENT).
audit_content(db, c, dbf) ==
    IF c = 0 \/ dbf = 0 \/ db.files[dbf].csum.type = "NONE"
    THEN (IF c # 0 THEN 1 ELSE 0)
    ELSE IF c # db.files[dbf].csum.data THEN 1 ELSE 0

\* apk_db_audit_file: 0 iff the file on disk has the digest the File records
\* (dbf = 0 is the NULL File).
apk_db_audit_file(db, dirname, filename, dbf) ==
    audit_content(db, Content(db.disk, <<dirname, filename>>), dbf)

\* apk_db_dir_prepare; fsdir is what apk_fsdir_check finds for the directory.
apk_db_dir_prepare(db, dir, acl_is_null, fsdir) ==
    IF Len(dir.name) = 0 \/ db.dirs[dir].created THEN db
    ELSE IF acl_is_null
    THEN [db EXCEPT !.dirs[dir].permissions_ok = IF fsdir = "ENOENT" THEN TRUE ELSE @,
                    !.dirs[dir].permissions_stale = IF fsdir = "ENOENT" THEN TRUE ELSE @,
                    !.dirs[dir].created = TRUE]
    ELSE [db EXCEPT !.dirs[dir].permissions_stale = IF fsdir = "ENOENT" THEN TRUE ELSE @,
                    !.dirs[dir].permissions_ok = IF fsdir \in {"ENOENT", "OK"} THEN TRUE ELSE @,
                    !.dirs[dir].created = TRUE]

---------------------------------------------------------------------------
(* The installer *)

StartsWith(str, pre) == Len(str) >= Len(pre) /\ SubSeq(str, 1, Len(pre)) = pre

\* strstr(str, sub) != NULL
Contains(str, sub) ==
    \E i \in 1..(Len(str) - Len(sub) + 1) : SubSeq(str, i, i + Len(sub) - 1) = sub

contains_control_character(str) == \E i \in 1..Len(str) : str[i] = "^"

\* The sanity check of apk_db_install_file.
malicious_name(name) ==
    \/ StartsWith(name, <<"/">>)
    \/ contains_control_character(name)
    \/ StartsWith(name, <<".", "/">>)
    \/ StartsWith(name, <<".", ".", "/">>)
    \/ Contains(name, <<"/", ".", "/">>)
    \/ Contains(name, <<"/", ".", ".", "/">>)

\* The early return of apk_db_install_file for the archive's own metadata.
dot_name(name) == Len(name) > 0 /\ name[1] = "."

\* apk_checksum_from_digest: a SHA-256 digest does not fit a checksum.
apk_checksum_from_digest(ae) ==
    IF ae.alg = "SHA1" THEN [type |-> "SHA1", data |-> ae.content] ELSE NOCSUM

\* The first File of the list l named name, 0 when there is none.
RECURSIVE file_of_name(_, _, _)
file_of_name(db, l, name) ==
    IF l = <<>> THEN 0
    ELSE IF db.files[Head(l)].name = name THEN Head(l)
    ELSE file_of_name(db, Tail(l), name)

\* The hard link target among the Files of ldiri.
link_target_in(db, ldiri, hlfile) ==
    IF ldiri = 0 THEN 0 ELSE file_of_name(db, db.diris[ldiri].owned_files, hlfile)

\* The hard link target among the package's own files, 0 when there is none.
link_target_file(db, pkg, diri, link_target) ==
    IF ~apk_blob_rsplit(link_target).found THEN 0
    ELSE link_target_in(db, find_diri(db, pkg, apk_blob_rsplit(link_target).l, diri),
                        apk_blob_rsplit(link_target).r)

\* A variant of replaces_proceeds that lets every entry past the ownership
\* check.
replaces_always_proceeds(db, opkg, pkg) == TRUE

\* Whether apk_db_install_file goes on past the ownership check, given the
\* owner opkg of the path in the index.
replaces_proceeds(db, opkg, pkg) ==
    \/ apk_pkg_replaces_file(db, opkg, pkg) = APK_PKG_REPLACES_YES
    \/ /\ apk_pkg_replaces_file(db, opkg, pkg) = APK_PKG_REPLACES_CONFLICT
       /\ APK_FORCE_OVERWRITE \in db.flags

\* A variant of install_extracted that marks nothing broken when the
\* extraction has failed.
install_extracted_unmarked(db, ic, ae, file, ltf, c0) ==
    [db |-> IF ae.r = "OK"
            THEN [db EXCEPT !.files[file].csum = c0]
            ELSE db,
     ic |-> ic,
     ret |-> IF ae.r = "ENOSPC" THEN -1 ELSE 0,
     out |-> "staged"]

\* The switch (r) after apk_fs_extract: db is the database after the
\* extraction, c0 the checksum of the hard link target or of the digest.
install_extracted(db, ic, ae, file, ltf, c0) ==
    Result({
      [db |-> CASE ae.r = "OK" ->
                     [db EXCEPT
                        !.files[file].csum =
                           IF trunc THEN [type |-> "SHA1", data |-> ae.content] ELSE c0,
                        !.ipkg[ic.pkg].sha256_160 = IF trunc THEN TRUE ELSE @,
                        !.ipkg[ic.pkg].broken_files = IF miss THEN TRUE ELSE @]
                [] ae.r = "ENOTSUP" -> [db EXCEPT !.ipkg[ic.pkg].broken_xattr = TRUE]
                [] OTHER -> [db EXCEPT !.ipkg[ic.pkg].broken_files = TRUE],
       ic |-> [ic EXCEPT !.missing_checksum = @ \/ (ae.r = "OK" /\ miss)],
       ret |-> IF ae.r = "ENOSPC" THEN -1 ELSE 0,
       out |-> "staged"]
      : trunc \in {c0.type = "NONE" /\ ae.alg = "SHA256"},
        miss  \in {/\ ~(c0.type = "NONE" /\ ae.alg = "SHA256")
                   /\ ltf = 0 /\ ~ic.missing_checksum /\ ae.alg = "NONE"} })

\* apk_db_install_file from the File on: n.file is the File of the entry,
\* n.db the database that holds it.
install_extract(n, ic, ae, bdir, bfile, ltf) ==
    install_extracted(
      apk_fs_extract([n.db EXCEPT !.files[n.file].acl = ae.acl], bdir, bfile, ae),
      ic, ae, n.file, ltf,
      IF ltf # 0 THEN n.db.files[ltf].csum ELSE apk_checksum_from_digest(ae))

\* The ownership check of apk_db_install_file: ofile is the File the index
\* has for the path (0: none) and opkg its package.
install_owned(db, ic, ae, diri, bdir, bfile, ltf, ofile, opkg) ==
    IF ofile # 0 /\ ~replaces_proceeds(db, opkg, ic.pkg)
    THEN IF apk_pkg_replaces_file(db, opkg, ic.pkg) = APK_PKG_REPLACES_CONFLICT
         THEN [db |-> [db EXCEPT !.ipkg[ic.pkg].broken_files = TRUE],
               ic |-> ic, ret |-> 0, out |-> "conflict"]
         ELSE [db |-> db, ic |-> ic, ret |-> 0, out |-> "replaces_no"]
    ELSE install_extract(IF opkg # ic.pkg THEN apk_db_file_new(db, diri, bfile)
                         ELSE [db |-> db, file |-> ofile],
                         ic, ae, bdir, bfile, ltf)

\* The regular-file branch once diri is known and the hard link is resolved.
install_regular(db, ic, ae, diri, bdir, bfile, ltf) ==
    Result({
      install_owned(db, ic, ae, diri, bdir, bfile, ltf, ofile,
                    IF ofile = 0 THEN NULLPKG ELSE db.diris[db.files[ofile].diri].pkg)
      : ofile \in {apk_db_file_query(db, bdir, bfile)} })

\* The hard link check: n.diri is the DirInstance of the entry's directory.
install_link(n, ic, ae, bdir, bfile, ltf) ==
    IF ae.link_target # <<>> /\ ltf = 0
    THEN [db |-> [n.db EXCEPT !.ipkg[ic.pkg].broken_files = TRUE],
          ic |-> [ic EXCEPT !.diri = n.diri], ret |-> 0, out |-> "nolink"]
    ELSE install_regular(n.db, [ic EXCEPT !.diri = n.diri], ae, n.diri, bdir, bfile, ltf)

\* A variant of install_nondir that gives the package a DirInstance for
\* whatever directory the entry names.
install_nondir_creating(db, ic, ae, sp, d0) ==
    Result({
      install_link(n, ic, ae, sp.l, sp.r,
                   IF ae.link_target = <<>> THEN 0
                   ELSE link_target_file(n.db, ic.pkg, n.diri, ae.link_target))
      : n \in {IF d0 = 0 THEN apk_db_diri_new(db, ic.pkg, sp.l)
               ELSE [db |-> db, diri |-> d0]} })

\* The entry of a file: d0 is what find_diri gave for its directory.
install_nondir(db, ic, ae, sp, d0) ==
    IF d0 = 0 /\ sp.found
    THEN [db |-> [db EXCEPT !.ipkg[ic.pkg].broken_files = TRUE],
          ic |-> [ic EXCEPT !.diri = 0], ret |-> 0, out |-> "nodirent"]
    ELSE Result({
           install_link(n, ic, ae, sp.l, sp.r,
                        IF ae.link_target = <<>> THEN 0
                        ELSE link_target_file(n.db, ic.pkg, n.diri, ae.link_target))
           : n \in {IF d0 = 0 THEN apk_db_diri_new(db, ic.pkg, sp.l)
                    ELSE [db |-> db, diri |-> d0]} })

\* The entry of a directory: n.diri is its DirInstance, dir its Dir.
install_dir(n, ic, ae, dir) ==
    [db |-> apk_db_dir_prepare(
              apk_db_dir_apply_diri_permissions(
                [n.db EXCEPT !.diris[n.diri].acl = ae.acl], n.diri),
              dir, n.db.dirs[dir].owner = 0, ae.fsdir),
     ic |-> [ic EXCEPT !.diri = n.diri], ret |-> 0, out |-> "dir"]

\* apk_db_install_file: [db, ic, ret, out]; out names the path taken.
apk_db_install_file(db, ic, ae) ==
    IF dot_name(ae.name)
    THEN [db |-> db, ic |-> ic, ret |-> 0, out |-> "dot"]
    ELSE IF malicious_name(ae.name)
    THEN [db |-> [db EXCEPT !.ipkg[ic.pkg].broken_files = TRUE],
          ic |-> ic, ret |-> 0, out |-> "malicious"]
    ELSE IF ae.mode # "dir"
    THEN Result({ install_nondir(db, ic, ae, sp, find_diri(db, ic.pkg, sp.l, ic.diri))
                  : sp \in {apk_blob_rsplit(ae.name)} })
    ELSE Result({ install_dir(n, ic, ae, n.db.diris[n.diri].dir)
                  : n \in { Result({ IF d0 = 0
                                     THEN apk_db_diri_new(db, ic.pkg, StripSlash(ae.name))
                                     ELSE [db |-> db, diri |-> d0]
                                     : d0 \in {find_diri(db, ic.pkg, StripSlash(ae.name), 0)} }) } })

---------------------------------------------------------------------------
(* The purger and the migrator.  db.ctl collects the apk_fsdir_file_control  *)
(* decisions of the running handler, one record per File visited.            *)

\* A variant of purge_unlink that leaves the index and the statistics alone.
purge_unlink_list_only(db, diri, file, is_installed, hit) ==
    [db EXCEPT !.diris[diri].owned_files = ListDel(@, file)]

\* The end of a turn of the inner loop of apk_db_purge_pkg: the File leaves
\* the list of its DirInstance and, of an installed package, the index.
purge_unlink(db, diri, file, is_installed, hit) ==
    IF is_installed
    THEN [db EXCEPT !.diris[diri].owned_files = ListDel(@, file),
                    !.index = IF hit # 0 THEN Drop(@, hit) ELSE @,
                    !.files = IF hit # 0 THEN Drop(@, hit) ELSE @,
                    !.stats.files = @ - 1]
    ELSE IF file \in DOMAIN db.index
    THEN [db EXCEPT !.diris[diri].owned_files = ListDel(@, file)]
    ELSE [db EXCEPT !.diris[diri].owned_files = ListDel(@, file),
                    !.files = Drop(@, file)]

\* A variant of purge_control that deletes whatever the guard says.
purge_control_always(db, dir, filename, ctrl, audit, done) ==
    [apk_fsdir_file_control(db, dir.name, filename, ctrl).db
       EXCEPT !.ctl = @ \cup {[op |-> "purge", dir |-> dir.name, file |-> filename,
                               ctrl |-> ctrl,
                               mode |-> db.dirs[dir].protect_mode,
                               audit |-> audit]}]

\* The control action of a turn: done iff the guard of the call holds.
purge_control(db, dir, filename, ctrl, audit, done) ==
    [(IF done THEN apk_fsdir_file_control(db, dir.name, filename, ctrl).db ELSE db)
       EXCEPT !.ctl = @ \cup {[op |-> "purge", dir |-> dir.name, file |-> filename,
                               ctrl |-> IF done THEN ctrl ELSE "SKIP",
                               mode |-> db.dirs[dir].protect_mode,
                               audit |-> audit]}]

\* One turn of the inner loop of apk_db_purge_pkg.
purge_file(db, diri, file, is_installed) ==
    Result({
      purge_unlink(
        purge_control(db, dir, filename,
                      IF is_installed THEN APK_FS_CTRL_DELETE ELSE APK_FS_CTRL_CANCEL,
                      audit,
                      \/ ~is_installed
                      \/ apk_protect_mode_none(db.dirs[dir].protect_mode)
                      \/ APK_PURGE \in db.flags
                      \/ audit = 0),
        diri, file, is_installed,
        files_get_hashed(db, dir.name, filename, apk_blob_hash_seed(filename, dir.hash)))
      : dir      \in {db.diris[diri].dir},
        filename \in {db.files[file].name},
        audit    \in {apk_db_audit_file(db, db.diris[diri].dir.name,
                                        db.files[file].name, file)} })

RECURSIVE purge_files(_, _, _)
purge_files(db, diri, is_installed) ==
    IF db.diris[diri].owned_files = <<>> THEN db
    ELSE purge_files(purge_file(db, diri, Head(db.diris[diri].owned_files), is_installed),
                     diri, is_installed)

\* One turn of the outer loop of apk_db_purge_pkg.
purge_diri(db, pkg, diri, is_installed) ==
    apk_db_diri_free(
      [purge_files(IF is_installed
                   THEN [db EXCEPT !.dirs[db.diris[diri].dir].modified = TRUE]
                   ELSE db,
                   diri, is_installed)
         EXCEPT !.ipkg[pkg].owned_dirs = Tail(@)],
      diri, APK_DIR_REMOVE)

RECURSIVE apk_db_purge_pkg(_, _, _)
apk_db_purge_pkg(db, pkg, is_installed) ==
    IF db.ipkg[pkg].owned_dirs = <<>> THEN db
    ELSE apk_db_purge_pkg(purge_diri(db, pkg, Head(db.ipkg[pkg].owned_dirs), is_installed),
                          pkg, is_installed)

\* The File ofile is an overlay's.
from_overlay(db, ofile) ==
    ofile # 0 /\ pkg_name(db.diris[db.files[ofile].diri].pkg) = NULLPKG

\* A variant of migrate_ctrl that never looks at the file on disk.
migrate_ctrl_commit(db, dir, filename, file, ofile) ==
    IF from_overlay(db, ofile) THEN APK_FS_CTRL_CANCEL ELSE APK_FS_CTRL_COMMIT

\* A variant of migrate_ctrl that commits whoever owns the path.
migrate_ctrl_always_commit(db, dir, filename, file, ofile) == APK_FS_CTRL_COMMIT

\* The control action apk_db_migrate_files_for_priority chooses for file,
\* whose path the index gives to ofile (0 when to nobody).
migrate_ctrl(db, dir, filename, file, ofile) ==
    IF from_overlay(db, ofile)
    THEN APK_FS_CTRL_CANCEL
    ELSE IF /\ ~apk_protect_mode_none(db.dirs[dir].protect_mode)
            /\ apk_db_audit_file(db, dir.name, filename, ofile) # 0
    THEN IF \/ APK_CLEAN_PROTECTED \in db.flags
            \/ apk_db_audit_file(db, dir.name, filename, file) = 0
         THEN APK_FS_CTRL_CANCEL
         ELSE APK_FS_CTRL_APKNEW
    ELSE APK_FS_CTRL_COMMIT

\* A variant of migrate_claim that leaves the index as it is.
migrate_claim_nothing(db, file, ofile, hash) == db

\* "Claim ownership of the file in db".
migrate_claim(db, file, ofile, hash) ==
    IF ofile = file THEN db
    ELSE IF ofile # 0
    THEN [db EXCEPT !.diris[db.files[ofile].diri].owned_files = ListDel(@, ofile),
                    !.index = Put(Drop(@, ofile), file, hash),
                    !.files = Drop(@, ofile)]
    ELSE [db EXCEPT !.stats.files = @ + 1,
                    !.index = Put(@, file, hash)]

\* "Commit changes": c is what apk_fsdir_file_control returned for ctrl.
migrate_commit(db, c, pkg, dir, filename, file, ofile, ctrl) ==
    [c.db EXCEPT
       !.ipkg[pkg].broken_files = IF c.r < 0 THEN TRUE ELSE @,
       !.ctl = @ \cup {[op |-> "migrate", pkg |-> pkg,
                        dir |-> dir.name, file |-> filename,
                        ctrl |-> ctrl, r |-> c.r, fid |-> file,
                        mode |-> db.dirs[dir].protect_mode,
                        disk |-> Content(db.disk, <<dir.name, filename>>),
                        staged |-> Content(db.staged, <<dir.name, filename>>),
                        csum |-> db.files[file].csum,
                        overlay |-> from_overlay(db, ofile),
                        owned |-> ofile # 0,
                        ocsum |-> IF ofile # 0 THEN db.files[ofile].csum ELSE NOCSUM,
                        oaudit |-> apk_db_audit_file(db, dir.name, filename, ofile)]}]

\* One turn of the inner loop once the index has been asked for ofile.
migrate_found(db, pkg, dir, filename, file, ofile, hash) ==
    Result({
      migrate_claim(
        migrate_commit(db, apk_fsdir_file_control(db, dir.name, filename, ctrl),
                       pkg, dir, filename, file, ofile, ctrl),
        file, ofile, hash)
      : ctrl \in {migrate_ctrl(db, dir, filename, file, ofile)} })

\* One turn of the inner loop of apk_db_migrate_files_for_priority.
migrate_file(db, pkg, diri, file) ==
    Result({
      migrate_found(db, pkg, dir, filename, file,
                    files_get_hashed(db, dir.name, filename,
                                     apk_blob_hash_seed(filename, dir.hash)),
                    apk_blob_hash_seed(filename, dir.hash))
      : dir      \in {db.diris[diri].dir},
        filename \in {db.files[file].name} })

\* The inner loop over the Files of diri that are still to be visited.
RECURSIVE migrate_files(_, _, _, _)
migrate_files(db, pkg, diri, todo) ==
    IF todo = <<>> THEN db
    ELSE IF Head(todo) \notin DOMAIN db.files
    THEN migrate_files(db, pkg, diri, Tail(todo))
    ELSE migrate_files(migrate_file(db, pkg, diri, Head(todo)), pkg, diri, Tail(todo))

\* apk_db_migrate_files_for_priority over the DirInstances todo.
RECURSIVE apk_db_migrate_files_for_priority(_, _, _, _)
apk_db_migrate_files_for_priority(db, pkg, priority, todo) ==
    IF todo = <<>> THEN db
    ELSE IF apk_fsdir_priority(db.diris[Head(todo)].dir.name) # priority
    THEN apk_db_migrate_files_for_priority(db, pkg, priority, Tail(todo))
    ELSE apk_db_migrate_files_for_priority(
           migrate_files([db EXCEPT !.dirs[db.diris[Head(todo)].dir].modified = TRUE],
                         pkg, Head(todo), db.diris[Head(todo)].owned_files),
           pkg, priority, Tail(todo))

\* A variant of migrate_next_priority that finds nothing left to do.
migrate_next_priority_done(db, priority, todo, next_priority) == APK_FS_PRIO_DONE

\* What apk_db_migrate_files_for_priority returns: the lowest priority above
\* priority among the DirInstances todo, next_priority when there is none.
RECURSIVE migrate_next_priority(_, _, _, _)
migrate_next_priority(db, priority, todo, next_priority) ==
    IF todo = <<>> THEN next_priority
    ELSE migrate_next_priority(
           db, priority, Tail(todo),
           IF /\ apk_fsdir_priority(db.diris[Head(todo)].dir.name) # priority
              /\ apk_fsdir_priority(db.diris[Head(todo)].dir.name) > priority
              /\ apk_fsdir_priority(db.diris[Head(todo)].dir.name) < next_priority
           THEN apk_fsdir_priority(db.diris[Head(todo)].dir.name)
           ELSE next_priority)

\* The for loop of apk_db_migrate_files from the pass of priority prio on.
RECURSIVE migrate_passes(_, _, _)
migrate_passes(db, pkg, prio) ==
    IF prio = APK_FS_PRIO_DONE THEN db
    ELSE migrate_passes(
           apk_db_migrate_files_for_priority(db, pkg, prio, db.ipkg[pkg].owned_dirs),
           pkg,
           migrate_next_priority(db, prio, db.ipkg[pkg].owned_dirs, APK_FS_PRIO_DONE))

apk_db_migrate_files(db, pkg) == migrate_passes(db, pkg, APK_FS_PRIO_DISK)

---------------------------------------------------------------------------
(* The FDB text codec.  A text is a sequence of lines [f, v]: f is the     *)
(* field letter ("" for the empty line that ends a package), v the rest of *)
(* the line after the colon.                                               *)

\* apk_blob_push_uint(b, n, base): the digits of n, most significant first.
RECURSIVE apk_blob_push_uint(_, _)
apk_blob_push_uint(n, base) ==
    IF n < base THEN <<n>>
    ELSE Append(apk_blob_push_uint(n \div base, base), n % base)

\* apk_blob_pull_uint(b, base)
RECURSIVE apk_blob_pull_uint(_, _)
apk_blob_pull_uint(digits, base) ==
    IF digits = <<>> THEN 0
    ELSE apk_blob_pull_uint(SubSeq(digits, 1, Len(digits) - 1), base) * base
         + digits[Len(digits)]

\* apk_blob_push_csum / apk_blob_pull_csum: "Q1" and base64 for SHA1, plain
\* hex for MD5.
apk_blob_push_csum(csum) ==
    IF csum.type = "SHA1" THEN <<"Q1", csum.data>> ELSE <<"hex", csum.data>>

apk_blob_pull_csum(b) ==
    IF Len(b) = 2 /\ b[1] = "Q1" THEN [type |-> "SHA1", data |-> b[2]]
    ELSE IF Len(b) = 2 /\ b[1] = "hex" THEN [type |-> "MD5", data |-> b[2]]
    ELSE NOCSUM

Line(f, v) == [f |-> f, v |-> v]

\* The xattr checksum of an ACL: 0 is APK_CHECKSUM_NONE.
XattrCsum(x) == [type |-> "SHA1", data |-> x]

apk_blob_push_db_acl(field, acl) ==
    Line(field, [uid   |-> apk_blob_push_uint(acl.uid, 10),
                 gid   |-> apk_blob_push_uint(acl.gid, 10),
                 mode  |-> apk_blob_push_uint(acl.mode, 8),
                 xattr |-> IF acl.xattr # 0 THEN apk_blob_push_csum(XattrCsum(acl.xattr))
                           ELSE <<>>])

\* The 'M' and 'a' cases of apk_db_fdb_read.
fdb_pull_acl(v) ==
    apk_db_acl_atomize(apk_blob_pull_uint(v.mode, 8),
                       apk_blob_pull_uint(v.uid, 10),
                       apk_blob_pull_uint(v.gid, 10),
                       IF v.xattr # <<>> THEN apk_blob_pull_csum(v.xattr).data ELSE 0)

\* db->repo_tags has this many slots, the default tag included.
APK_MAX_TAGS == 16

\* The index of the first of the plain names tags that is tag, counted
\* from i; 0 when there is none.
RECURSIVE tag_index(_, _, _)
tag_index(tags, tag, i) ==
    IF i > Len(tags) THEN 0
    ELSE IF tags[i] = tag THEN i
    ELSE tag_index(tags, tag, i + 1)

\* apk_db_get_tag_id past the search, which gave i.
get_tag_id_found(db, tag, i) ==
    IF i # 0 THEN [db |-> db, id |-> i]
    ELSE IF Len(db.repo_tags) + 1 >= APK_MAX_TAGS THEN [db |-> db, id |-> -1]
    ELSE [db |-> [db EXCEPT !.repo_tags = Append(@, tag)],
          id |-> Len(db.repo_tags) + 1]

\* apk_db_get_tag_id for a plain (no '@') name: [db, id].  Tag 0 is the
\* default tag; db.repo_tags[i] is the plain name of tag i.
apk_db_get_tag_id(db, tag) == get_tag_id_found(db, tag, tag_index(db.repo_tags, tag, 1))

\* apk_pkg_write_index_header: the index fields of the package; P: is the
\* first of them.  apk_pkg_add_info returns 0 for them and 1 for the fields
\* of the FDB.
apk_pkg_write_index_header(pkg) == << Line("P", pkg) >>
apk_pkg_add_info(field) == IF field = "P" THEN 0 ELSE 1

\* A variant of fdb_write_file that writes no a: line.
fdb_write_file_no_acl(db, file) ==
    << Line("R", db.files[file].name) >>
    \o (IF db.files[file].csum.type # "NONE"
        THEN << Line("Z", apk_blob_push_csum(db.files[file].csum)) >> ELSE <<>>)

\* The lines of one File.
fdb_write_file(db, file) ==
    << Line("R", db.files[file].name) >>
    \o (IF db.files[file].acl # apk_default_acl_file
        THEN << apk_blob_push_db_acl("a", db.files[file].acl) >> ELSE <<>>)
    \o (IF db.files[file].csum.type # "NONE"
        THEN << Line("Z", apk_blob_push_csum(db.files[file].csum)) >> ELSE <<>>)

RECURSIVE fdb_write_files(_, _)
fdb_write_files(db, files) ==
    IF files = <<>> THEN <<>>
    ELSE fdb_write_file(db, Head(files)) \o fdb_write_files(db, Tail(files))

fdb_write_diri(db, diri) ==
    << Line("F", db.diris[diri].dir.name) >>
    \o (IF db.diris[diri].acl # apk_default_acl_dir
        THEN << apk_blob_push_db_acl("M", db.diris[diri].acl) >> ELSE <<>>)
    \o fdb_write_files(db, db.diris[diri].owned_files)

RECURSIVE fdb_write_diris(_, _)
fdb_write_diris(db, diris) ==
    IF diris = <<>> THEN <<>>
    ELSE fdb_write_diri(db, Head(diris)) \o fdb_write_diris(db, Tail(diris))

\* The lines of apk_db_fdb_write that come from the ipkg itself.
fdb_write_ipkg(db, ipkg) ==
    (IF ipkg.replaces_priority # 0
     THEN << Line("q", apk_blob_push_uint(ipkg.replaces_priority, 10)) >> ELSE <<>>)
    \o (IF ipkg.repository_tag # 0
        THEN << Line("s", db.repo_tags[ipkg.repository_tag]) >> ELSE <<>>)
    \o (IF ipkg.broken_files \/ ipkg.broken_script \/ ipkg.broken_xattr \/ ipkg.sha256_160
        THEN << Line("f", (IF ipkg.broken_files THEN <<"f">> ELSE <<>>)
                          \o (IF ipkg.broken_script THEN <<"s">> ELSE <<>>)
                          \o (IF ipkg.broken_xattr THEN <<"x">> ELSE <<>>)
                          \o (IF ipkg.sha256_160 THEN <<"S">> ELSE <<>>)) >>
        ELSE <<>>)

\* apk_db_fdb_write: the text of one installed package.  The replaces list
\* (r:) is left out of the model.
apk_db_fdb_write(db, pkg) ==
    apk_pkg_write_index_header(pkg)
    \o fdb_write_ipkg(db, db.ipkg[pkg])
    \o fdb_write_diris(db, db.ipkg[pkg].owned_dirs)
    \o << Line("", <<>>) >>

\* The 'f' case of apk_db_fdb_read: [db, ok].
RECURSIVE fdb_read_flags(_, _, _)

\* The loop over the letters leaving at the first unknown letter.
RECURSIVE fdb_read_flags_leaving(_, _, _)
fdb_read_flags_leaving(db, pkg, l) ==
    IF l = <<>> \/ Head(l) \notin {"f", "s", "x", "S"}
    THEN [db |-> db, ok |-> l = <<>> \/ APK_FORCE_OLD_APK \in db.flags]
    ELSE fdb_read_flags_leaving(
           [db EXCEPT
              !.ipkg[pkg].broken_files  = IF Head(l) = "f" THEN TRUE ELSE @,
              !.ipkg[pkg].broken_script = IF Head(l) = "s" THEN TRUE ELSE @,
              !.ipkg[pkg].broken_xattr  = IF Head(l) = "x" THEN TRUE ELSE @,
              !.ipkg[pkg].sha256_160    = IF Head(l) = "S" THEN TRUE ELSE @],
           pkg, Tail(l))

fdb_read_flags(db, pkg, l) ==
    IF l = <<>> THEN [db |-> db, ok |-> TRUE]
    ELSE IF Head(l) \notin {"f", "s", "x", "S"}
    THEN IF APK_FORCE_OLD_APK \in db.flags THEN fdb_read_flags(db, pkg, Tail(l))
         ELSE [db |-> db, ok |-> FALSE]
    ELSE fdb_read_flags(
           [db EXCEPT
              !.ipkg[pkg].broken_files  = IF Head(l) = "f" THEN TRUE ELSE @,
              !.ipkg[pkg].broken_script = IF Head(l) = "s" THEN TRUE ELSE @,
              !.ipkg[pkg].broken_xattr  = IF Head(l) = "x" THEN TRUE ELSE @,
              !.ipkg[pkg].sha256_160    = IF Head(l) = "S" THEN TRUE ELSE @],
           pkg, Tail(l))

\* The reader's locals before the first line.  file is never reset.
FdbLocals == [pkg |-> NULLPKG, ipkg |-> FALSE, diri |-> 0, file |-> 0, r |-> 0]

\* The empty line that ends a package.  apk_db_pkg_add returns NULL for a
\* package without a name.
fdb_read_end(db, rs) ==
    IF rs.pkg = NULLPKG THEN [db |-> db, rs |-> rs]
    ELSE IF rs.pkg = NONAME
    THEN [db |-> apk_pkg_install(db, rs.pkg), rs |-> [rs EXCEPT !.r = -1]]
    ELSE [db |-> apk_pkg_install(
                   IF rs.diri # 0 THEN apk_db_dir_apply_diri_permissions(db, rs.diri)
                   ELSE db,
                   rs.pkg),
          rs |-> [rs EXCEPT !.pkg = NULLPKG, !.ipkg = FALSE]]

\* case 'F': n is the DirInstance found or made.
fdb_read_F(db, rs, v) ==
    Result({
      [db |-> n.db, rs |-> [rs EXCEPT !.diri = n.diri]]
      : n \in { Result({
                  IF d0 = 0 THEN apk_db_diri_new(db1, rs.pkg, v)
                  ELSE [db |-> db1, diri |-> d0]
                  : db1 \in {IF rs.diri # 0
                             THEN apk_db_dir_apply_diri_permissions(db, rs.diri)
                             ELSE db},
                    d0  \in {find_diri(db, rs.pkg, v, 0)} }) } })

\* case 'R'
fdb_read_R(db, rs, v) ==
    Result({ [db |-> n.db, rs |-> [rs EXCEPT !.file = n.file]]
             : n \in {apk_db_file_get(db, rs.diri, v)} })

\* case 's'
fdb_read_s(db, rs, v) ==
    Result({ [db |-> [t.db EXCEPT !.ipkg[rs.pkg].repository_tag = t.id], rs |-> rs]
             : t \in {apk_db_get_tag_id(db, v)} })

\* case 'f'
fdb_read_f(db, rs, v) ==
    Result({ [db |-> fl.db, rs |-> IF fl.ok THEN rs ELSE [rs EXCEPT !.r = -1]]
             : fl \in {fdb_read_flags(db, rs.pkg, v)} })

\* The switch (field) of apk_db_fdb_read: the package is installed, rs.ipkg
\* is set.
fdb_read_field(db, rs, line) ==
    CASE line.f = "F" ->
           IF rs.pkg = NONAME THEN [db |-> db, rs |-> [rs EXCEPT !.r = -1]]
           ELSE fdb_read_F(db, rs, line.v)
      [] line.f \in {"M", "a"} ->
           IF (line.f = "a" /\ rs.file = 0) \/ rs.diri = 0
           THEN [db |-> db, rs |-> [rs EXCEPT !.r = -1]]
           ELSE [db |-> IF line.f = "M"
                        THEN [db EXCEPT !.diris[rs.diri].acl = fdb_pull_acl(line.v)]
                        ELSE [db EXCEPT !.files[rs.file].acl = fdb_pull_acl(line.v)],
                 rs |-> rs]
      [] line.f = "R" ->
           IF rs.diri = 0 THEN [db |-> db, rs |-> [rs EXCEPT !.r = -1]]
           ELSE fdb_read_R(db, rs, line.v)
      [] line.f = "Z" ->
           IF rs.file = 0 THEN [db |-> db, rs |-> [rs EXCEPT !.r = -1]]
           ELSE [db |-> [db EXCEPT !.files[rs.file].csum = apk_blob_pull_csum(line.v)],
                 rs |-> rs]
      [] line.f = "q" ->
           [db |-> [db EXCEPT !.ipkg[rs.pkg].replaces_priority =
                                  apk_blob_pull_uint(line.v, 10)],
            rs |-> rs]
      [] line.f = "s" -> fdb_read_s(db, rs, line.v)
      [] line.f = "f" -> fdb_read_f(db, rs, line.v)
      [] OTHER ->
           IF APK_FORCE_OLD_APK \in db.flags THEN [db |-> db, rs |-> rs]
           ELSE [db |-> db, rs |-> [rs EXCEPT !.r = -1]]

\* "If no package, create new": the locals a line with a field starts from.
fdb_read_new(rs) ==
    IF rs.pkg = NULLPKG THEN [rs EXCEPT !.pkg = NONAME, !.ipkg = FALSE, !.diri = 0]
    ELSE rs

\* The P: line: apk_pkg_add_info names the package; an ipkg the package got
\* before its name goes with it.
fdb_read_P(db, rs, name) ==
    [db |-> IF rs.pkg = NONAME /\ rs.ipkg
            THEN [db EXCEPT !.ipkg[name] = db.ipkg[NONAME], !.ipkg[NONAME] = NULLIPKG]
            ELSE db,
     rs |-> [rs EXCEPT !.pkg = name]]

\* One turn of the loop of apk_db_fdb_read with repo == -1: [db, rs], rs the
\* locals; rs.r # 0 once the reader has left through bad_entry or err_fmt.
fdb_read_line(db, rs, line) ==
    IF line.f = "" THEN fdb_read_end(db, rs)
    ELSE IF apk_pkg_add_info(line.f) = 0
    THEN fdb_read_P(db, fdb_read_new(rs), line.v)
    ELSE fdb_read_field(
           IF ~fdb_read_new(rs).ipkg THEN apk_pkg_install(db, fdb_read_new(rs).pkg)
           ELSE db,
           [fdb_read_new(rs) EXCEPT !.ipkg = TRUE], line)

\* The loop, from the locals rs on.
RECURSIVE fdb_read_lines(_, _, _)
fdb_read_next(n, text) == fdb_read_lines(n.db, n.rs, text)

fdb_read_lines(db, rs, text) ==
    IF text = <<>> \/ rs.r # 0 THEN [db |-> db, r |-> rs.r]
    ELSE fdb_read_next(fdb_read_line(db, rs, Head(text)), Tail(text))

\* apk_db_fdb_read(db, is, -1, layer): [db, r]
apk_db_fdb_read(db, text) == fdb_read_lines(db, FdbLocals, text)

---------------------------------------------------------------------------
(* The overlay *)

\* The entry of a file of the overlay: n.diri is the DirInstance found or
\* made for its directory.
read_overlay_file(n, bfile) ==
    [db |-> apk_db_file_get(n.db, n.diri, bfile).db, diri |-> n.diri, stop |-> FALSE]

\* The entry of a directory of the overlay.
read_overlay_dir(n) ==
    [db |-> [n.db EXCEPT !.dirs[n.db.diris[n.diri].dir].created = TRUE],
     diri |-> n.diri, stop |-> FALSE]

\* One turn of the loop of apk_db_read_overlay past the split: [db, diri, stop].
read_overlay_split(db, diri, sp, d0) ==
    IF ~sp.found THEN [db |-> db, diri |-> diri, stop |-> TRUE]
    ELSE IF Len(sp.r) = 0 THEN read_overlay_dir(apk_db_diri_new(db, "O", sp.l))
    ELSE read_overlay_file(IF d0 = 0 THEN apk_db_diri_new(db, "O", sp.l)
                           ELSE [db |-> db, diri |-> d0],
                           sp.r)

read_overlay_line(db, diri, line) ==
    read_overlay_split(db, diri, apk_blob_rsplit(line),
                       find_diri(db, "O", apk_blob_rsplit(line).l, diri))

RECURSIVE read_overlay_lines(_, _, _)
read_overlay_next(n, lines) ==
    IF n.stop THEN n.db ELSE read_overlay_lines(n.db, n.diri, lines)

read_overlay_lines(db, diri, lines) ==
    IF lines = <<>> THEN db
    ELSE read_overlay_next(read_overlay_line(db, diri, Head(lines)), Tail(lines))

apk_db_read_overlay(db, lines) == read_overlay_lines(apk_pkg_install(db, "O"), 0, lines)

---------------------------------------------------------------------------
(* Bounds and inputs *)

\* Outside callers hold at most this many directory references at a time.
MaxHeld == 1

\* An archive has at most this many entries.
MaxEntries == 2

\* A run has at most this many operations (transactions, references taken,
\* edits by the user).
MaxOps == 2

\* File contents (and their digests) are 1..MaxContent.
MaxContent == 2

\* The names outside callers ask apk_db_dir_get for.
RawNames == { <<"e">>, <<"e", "/">> }

\* The replaces metadata of the two named packages.
Replaces(ab, ba) == [x \in {<<"A", "B">>, <<"B", "A">>} |-> IF x[1] = "A" THEN ab ELSE ba]
ReplacesCC == Replaces(APK_PKG_REPLACES_CONFLICT, APK_PKG_REPLACES_CONFLICT)
ReplacesYN == Replaces(APK_PKG_REPLACES_YES, APK_PKG_REPLACES_NO)

ACL_OTHER == Acl(448, 1, 1, 0)

Entry(name, mode, content, alg, acl, r, fsdir, link_target) ==
    [name |-> name, mode |-> mode, content |-> content, alg |-> alg, acl |-> acl,
     r |-> r, fsdir |-> fsdir, link_target |-> link_target]

DirEntry(name, acl, fsdir) == Entry(name, "dir", 0, "NONE", acl, "OK", fsdir, <<>>)
RegEntry(name, content, alg, r) == Entry(name, "reg", content, alg, apk_default_acl_file, r, "OK", <<>>)

\* The archive entries the extractor hands to apk_db_install_file.
Entries ==
    {DirEntry(<<"e">>, ACL_OTHER, "ENOENT")}
    \cup {RegEntry(<<"e", "/", "f">>, c, "SHA1", "OK") : c \in 1..MaxContent}
    \cup {RegEntry(<<"e", "/", "f">>, MaxContent, "NONE", "OK"),
          RegEntry(<<"e", "/", "f">>, MaxContent, "SHA1", "ENOTSUP")}
    \cup {RegEntry(<<"f">>, 1, "SHA1", r) : r \in {"OK", "EIO", "ENOSPC"}}
    \cup {RegEntry(n, 1, "SHA1", "OK") :
             n \in { <<".", ".", "/", "f">>, <<".", "/", "f">>, <<"/", "f">>,
                     <<"e", "/", ".", "/", "f">>, <<"e", "/", ".", ".", "/", "f">>,
                     <<"e", "^">>, <<".", "f">> }}

---------------------------------------------------------------------------
(* The state after apk_db_init and apk_db_open of an empty root *)

InitDb(flags, replaces) ==
    [dirs |-> [x \in {} |-> NewDir],
     diris |-> [x \in {} |-> 0],
     files |-> [x \in {} |-> 0],
     index |-> [x \in {} |-> <<>>],
     ipkg |-> [p \in Pkgs |-> NULLIPKG],
     protected_paths |-> protected_paths,
     stats |-> [files |-> 0, dirs |-> 0],
     dirowner_stale |-> FALSE,
     dirperms_stale |-> FALSE,
     flags |-> flags,
     replaces |-> replaces,
     disk |-> [x \in {} |-> 0],
     staged |-> [x \in {} |-> 0],
     apknew |-> [x \in {} |-> 0],
     repo_tags |-> <<>>,
     rmdir |-> {},
     ctl |-> {}]

\* The database as a handler finds it: the record of the last handler's
\* filesystem calls is empty.
Fresh(db) == [db EXCEPT !.rmdir = {}, !.ctl = {}]

\* The installed database of a root in which A owns etc/f with checksum 1.
TextA == << Line("P", "A"), Line("F", <<"e">>), Line("R", <<"f">>),
            Line("Z", <<"Q1", 1>>), Line("", <<>>) >>

\* The overlay of a root whose etc/f comes from the overlay.
OverlayE == << <<"e", "/">>, <<"e", "/", "f">> >>

Root(flags, replaces, overlay, installed, content) ==
    [flags |-> flags, replaces |-> replaces, overlay |-> overlay,
     installed |-> installed, content |-> content]

\* The roots apk_db_open is run on: the flags of the run, the replaces
\* metadata, the overlay list on stdin (empty: no APK_OVERLAY_FROM_STDIN),
\* lib/apk/db/installed, and the content of the files it lists.
Roots ==
    {Root(f, ReplacesCC, <<>>, <<>>, 1) : f \in {{}, {APK_FORCE_OVERWRITE}}}
    \cup {Root({}, ReplacesYN, <<>>, <<>>, 1)}
    \cup {Root(f, ReplacesYN, <<>>, TextA, c) :
             f \in {{}, {APK_PURGE}, {APK_CLEAN_PROTECTED}}, c \in 1..MaxContent}
    \cup {Root({}, ReplacesCC, OverlayE, <<>>, 1)}

\* apk_db_open: the overlay, then the installed database.
db_open_disk(db, content) ==
    [db EXCEPT !.disk = [k \in {<<FileDirName(db, f), db.files[f].name>> :
                                    f \in DOMAIN db.files} |-> content]]

apk_db_open(root) ==
    db_open_disk(
      apk_db_fdb_read(
        IF root.overlay # <<>>
        THEN apk_db_read_overlay(InitDb(root.flags, root.replaces), root.overlay)
        ELSE InitDb(root.flags, root.replaces),
        root.installed).db,
      root.content)

\* The Files the index holds for the path <<dirname, filename>>.
FilesAt(db, k) ==
    {f \in DOMAIN db.index : <<FileDirName(db, f), db.files[f].name>> = k}

\* The package that owns File f: file->diri->pkg.
Owner(db, f) == db.diris[db.files[f].diri].pkg

\* The paths of the index with the owner and the checksum of each.
IndexSnapshot(db) ==
    [k \in {<<FileDirName(db, f), db.files[f].name>> : f \in DOMAIN db.index} |->
       [owner |-> Owner(db, First(FilesAt(db, k))),
        csum  |-> db.files[First(FilesAt(db, k))].csum]]

\* The path <<dirname, filename>> an entry name stands for.
PathOf(name) == <<apk_blob_rsplit(name).l, apk_blob_rsplit(name).r>>

IdleCtx(n) == [pc |-> "idle", ntx |-> n]

\* The number of references outside callers hold on the Dirs of S.
RECURSIVE HeldSum(_)
HeldSum(S) ==
    IF S = {} THEN 0
    ELSE held[CHOOSE x \in S : TRUE] + HeldSum(S \ {CHOOSE x \in S : TRUE})

HeldCount == HeldSum(DOMAIN held)

Init ==
    /\ \E root \in Roots : dbs = apk_db_open(root)
    /\ held = [x \in {} |-> 0]
    /\ ctx = IdleCtx(0)
    /\ hist = [op |-> "open"]

\* An outside caller (an applet) takes a reference to a directory.
DirGet(raw) ==
    /\ ctx.pc = "idle"
    /\ ctx.ntx < MaxOps
    /\ HeldCount < MaxHeld
    /\ \E r \in {apk_db_dir_get(Fresh(dbs), raw)} :
          /\ dbs' = r.db
          /\ held' = [x \in DOMAIN held \cup {r.dir} |->
                        IF x = r.dir
                        THEN (IF x \in DOMAIN held THEN held[x] ELSE 0) + 1
                        ELSE held[x]]
          /\ hist' = [op |-> "dir_get", raw |-> raw, dir |-> r.dir,
                      refs |-> [d \in DOMAIN dbs.dirs |-> dbs.dirs[d].refs],
                      stats_dirs |-> dbs.stats.dirs]
    /\ ctx' = IdleCtx(ctx.ntx + 1)

\* ... and gives it back.
DirUnref(dir, mode) ==
    /\ ctx.pc = "idle"
    /\ dir \in DOMAIN held
    /\ dbs' = apk_db_dir_unref(Fresh(dbs), dir, mode)
    /\ held' = [x \in {y \in DOMAIN held : y # dir \/ held[y] > 1} |->
                  IF x = dir THEN held[x] - 1 ELSE held[x]]
    /\ hist' = [op |-> "dir_unref", dir |-> dir, mode |-> mode]
    /\ UNCHANGED ctx

\* The user edits a file below the root.
UserWrite(k, c) ==
    /\ ctx.pc = "idle"
    /\ ctx.ntx < MaxOps
    /\ k \in DOMAIN dbs.disk
    /\ dbs.disk[k] # c
    /\ dbs' = [Fresh(dbs) EXCEPT !.disk[k] = c]
    /\ hist' = [op |-> "user_write"]
    /\ ctx' = IdleCtx(ctx.ntx + 1)
    /\ UNCHANGED held

\* apk_db_install_pkg(db, NULL, newpkg) or (db, newpkg, newpkg) up to the
\* call of the extractor.  Every package of the model has installed_size != 0.
InstallBegin(oldpkg, newpkg) ==
    /\ ctx.pc = "idle"
    /\ ctx.ntx < MaxOps
    /\ pkg_name(newpkg) # NULLPKG
    /\ oldpkg \in {NULLPKG, newpkg}
    /\ (oldpkg = newpkg) = dbs.ipkg[newpkg].installed
    /\ dbs' = [apk_pkg_install(Fresh(dbs), newpkg) EXCEPT
                 !.ipkg[newpkg].broken_script = FALSE,
                 !.ipkg[newpkg].broken_files = FALSE,
                 !.ipkg[newpkg].broken_xattr = FALSE]
    /\ ctx' = [pc |-> "unpack", ntx |-> ctx.ntx + 1, pkg |-> newpkg, oldpkg |-> oldpkg,
               diri |-> 0, missing_checksum |-> FALSE, n |-> 0, r |-> 0,
               log |-> {}, old |-> IndexSnapshot(dbs)]
    /\ hist' = [op |-> "install_begin", pkg |-> newpkg]
    /\ UNCHANGED held

\* The extractor hands one archive entry to apk_db_install_file.
InstallFile(ae) ==
    /\ ctx.pc = "unpack"
    /\ ctx.r = 0
    /\ ctx.n < MaxEntries
    /\ \E res \in {apk_db_install_file(Fresh(dbs), ctx, ae)} :
          /\ dbs' = res.db
          /\ ctx' = [res.ic EXCEPT !.n = @ + 1, !.r = res.ret,
                                   !.log = @ \cup {[ae |-> ae, out |-> res.out]}]
          /\ hist' = [op |-> "install_file", pkg |-> ctx.pkg, ae |-> ae, out |-> res.out,
                      files |-> DOMAIN dbs.files, diris |-> DOMAIN dbs.diris,
                      staged |-> dbs.staged,
                      broken_files |-> dbs.ipkg[ctx.pkg].broken_files]
    /\ UNCHANGED held

\* The rest of apk_db_install_pkg when apk_db_unpack_pkg has returned xr # 0
\* (an error of the archive itself, or the error an entry returned).
InstallFail(xr) ==
    /\ ctx.pc = "unpack"
    /\ dbs' = apk_pkg_uninstall(
                IF ctx.oldpkg # ctx.pkg THEN apk_db_purge_pkg(Fresh(dbs), ctx.pkg, FALSE)
                ELSE Fresh(dbs),
                ctx.pkg)
    /\ hist' = [op |-> "install", pkg |-> ctx.pkg, oldpkg |-> ctx.oldpkg, r |-> xr,
                migrated |-> FALSE, log |-> ctx.log, old |-> ctx.old]
    /\ ctx' = IdleCtx(ctx.ntx)
    /\ UNCHANGED held

\* The rest of apk_db_install_pkg when apk_db_unpack_pkg has returned 0.
InstallEnd ==
    /\ ctx.pc = "unpack"
    /\ ctx.r = 0
    /\ \E db1 \in {apk_db_migrate_files(Fresh(dbs), ctx.pkg)} :
          /\ dbs' = db1
          /\ hist' = [op |-> "install", pkg |-> ctx.pkg, oldpkg |-> ctx.oldpkg,
                      r |-> IF db1.ipkg[ctx.pkg].broken_files
                               \/ db1.ipkg[ctx.pkg].broken_script
                            THEN -1 ELSE 0,
                      migrated |-> TRUE, log |-> ctx.log, old |-> ctx.old]
    /\ ctx' = IdleCtx(ctx.ntx)
    /\ UNCHANGED held

\* apk_db_install_pkg(db, oldpkg, NULL): just purging.
Remove(oldpkg) ==
    /\ ctx.pc = "idle"
    /\ ctx.ntx < MaxOps
    /\ pkg_name(oldpkg) # NULLPKG
    /\ dbs.ipkg[oldpkg].installed
    /\ dbs' = apk_pkg_uninstall(apk_db_purge_pkg(Fresh(dbs), oldpkg, TRUE), oldpkg)
    /\ hist' = [op |-> "remove", pkg |-> oldpkg,
                diris |-> Range(dbs.ipkg[oldpkg].owned_dirs),
                owned |-> UNION {Range(dbs.diris[d].owned_files) :
                                   d \in Range(dbs.ipkg[oldpkg].owned_dirs)},
                stats_files |-> dbs.stats.files,
                disk |-> dbs.disk]
    /\ ctx' = IdleCtx(ctx.ntx + 1)
    /\ UNCHANGED held

Next ==
    \/ \E raw \in RawNames : DirGet(raw)
    \/ \E dir \in DOMAIN held, mode \in {APK_DIR_FREE, APK_DIR_REMOVE} : DirUnref(dir, mode)
    \/ \E k \in DOMAIN dbs.disk, c \in 1..MaxContent : UserWrite(k, c)
    \/ \E o \in Pkgs \cup {NULLPKG}, n \in Pkgs : InstallBegin(o, n)
    \/ \E ae \in Entries : InstallFile(ae)
    \/ \E xr \in {-1} : InstallFail(xr)
    \/ InstallEnd
    \/ \E o \in Pkgs : Remove(o)

Spec == Init /\ [][Next]_vars

---------------------------------------------------------------------------
(* The FDB round trip: a text is read into a database, one of its packages *)
(* is written out, and what was written is read into an empty database.    *)

\* replaces_priority values of the texts are 0..MaxPrio.
MaxPrio == 2

ACL_XATTR == Acl(493, 0, 0, 1)

\* The M: or a: line of an ACL that is not the default of its kind.
FdbAclLines(field, which) ==
    CASE which = "other" ->
           << Line(field, [uid |-> <<1>>, gid |-> <<1>>, mode |-> <<7, 0, 0>>,
                           xattr |-> <<>>]) >>
      [] which = "xattr" ->
           << Line(field, [uid |-> <<0>>, gid |-> <<0>>, mode |-> <<7, 5, 5>>,
                           xattr |-> <<"Q1", 1>>]) >>
      [] OTHER -> <<>>

FdbCsumLines(which) ==
    CASE which = "SHA1" -> << Line("Z", <<"Q1", 1>>) >>
      [] which = "MD5"  -> << Line("Z", <<"hex", 2>>) >>
      [] OTHER -> <<>>

\* An installed database with the one package A.
FdbText(q, tag, flags, dacl, facl, csum, more) ==
    << Line("P", "A") >>
    \o (IF q # 0 THEN << Line("q", <<q>>) >> ELSE <<>>)
    \o (IF tag # "" THEN << Line("s", tag) >> ELSE <<>>)
    \o (IF flags # <<>> THEN << Line("f", flags) >> ELSE <<>>)
    \o << Line("F", <<"e">>) >> \o FdbAclLines("M", dacl)
    \o << Line("R", <<"f">>) >> \o FdbAclLines("a", facl) \o FdbCsumLines(csum)
    \o (IF more
        THEN << Line("R", <<"g">>), Line("F", <<"e", "/", "d">>), Line("R", <<"f">>) >>
             \o FdbCsumLines(csum)
        ELSE <<>>)
    \o << Line("", <<>>) >>

FdbTexts ==
    {FdbText(q, tag, flags, dacl, facl, csum, more) :
       q \in 0..MaxPrio, tag \in {"", "edge", "test"},
       flags \in {<<>>, <<"f">>, <<"s", "x">>, <<"S">>},
       dacl \in {"default", "other", "xattr"}, facl \in {"default", "other", "xattr"},
       csum \in {"NONE", "SHA1", "MD5"}, more \in BOOLEAN}

\* The repository tags the database knows before it reads the text.
FdbTags == { <<>>, <<"edge">>, <<"test", "edge">> }

InitFdb ==
    /\ \E tags \in FdbTags : dbs = [InitDb({}, ReplacesCC) EXCEPT !.repo_tags = tags]
    /\ held = [x \in {} |-> 0]
    /\ ctx = IdleCtx(0)
    /\ hist = [op |-> "open"]

FdbRead(text) ==
    /\ hist.op = "open"
    /\ \E res \in {apk_db_fdb_read(dbs, text)} :
          /\ dbs' = res.db
          /\ hist' = [op |-> "fdb_read", r |-> res.r]
    /\ UNCHANGED <<held, ctx>>

FdbWrite(pkg) ==
    /\ hist.op = "fdb_read"
    /\ dbs.ipkg[pkg].installed
    /\ hist' = [op |-> "fdb_write", pkg |-> pkg, text |-> apk_db_fdb_write(dbs, pkg)]
    /\ UNCHANGED <<dbs, held, ctx>>

FdbReread ==
    /\ hist.op = "fdb_write"
    /\ \E res \in {apk_db_fdb_read(InitDb({}, ReplacesCC), hist.text)} :
          hist' = [op |-> "fdb_reread", pkg |-> hist.pkg, r |-> res.r, db2 |-> res.db]
    /\ UNCHANGED <<dbs, held, ctx>>

NextFdb ==
    \/ \E text \in FdbTexts : FdbRead(text)
    \/ \E pkg \in Pkgs : FdbWrite(pkg)
    \/ FdbReread

SpecFdb == InitFdb /\ [][NextFdb]_vars

---------------------------------------------------------------------------
(* The database lock.  In SpecLock several processes open the same root:   *)
(* dbs maps a process to its struct apk_database (st, open_flags, lock_fd), *)
(* held is the state of the root they share: held.flock is the process    *)
(* that holds the exclusive flock on lib/apk/db/lock (0: nobody), held.dir *)
(* tells whether the directory lib/apk/db exists.                          *)

MaxProcs == 2
Procs == 1..MaxProcs

APK_OPENF_READ == "READ"
APK_OPENF_WRITE == "WRITE"
APK_OPENF_CREATE == "CREATE"
OpenFlags == SUBSET {APK_OPENF_READ, APK_OPENF_WRITE, APK_OPENF_CREATE}

\* A database that is not open: apk_db_init clears lock_fd.
ClosedDb == [st |-> "closed", open_flags |-> {}, lock_fd |-> 0]

\* openat(db->root_fd, "lib/apk/db/lock", O_CREAT | O_RDWR | O_CLOEXEC):
\* O_CREAT creates the file, not the directory that holds it.
openat_lock(root) == IF root.dir THEN 3 ELSE -1

\* A variant of open_lock that goes on when the lock is held by another
\* process.
open_lock_ignoring_flock(p, open_flags, lock_wait, root) ==
    IF APK_OPENF_WRITE \notin open_flags
    THEN [res |-> "ok", lock_fd |-> 0, root |-> root]
    ELSE [res |-> "ok", lock_fd |-> openat_lock(root),
          root |-> IF root.dir /\ root.flock = 0
                   THEN [root EXCEPT !.flock = p] ELSE root]

\* A variant of open_lock that blocks whatever lock_wait is.
open_lock_always_waiting(p, open_flags, lock_wait, root) ==
    IF APK_OPENF_WRITE \notin open_flags
    THEN [res |-> "ok", lock_fd |-> 0, root |-> root]
    ELSE IF openat_lock(root) < 0
    THEN [res |-> IF APK_OPENF_CREATE \notin open_flags THEN "err" ELSE "ok",
          lock_fd |-> openat_lock(root), root |-> root]
    ELSE IF root.flock = 0
    THEN [res |-> "ok", lock_fd |-> openat_lock(root),
          root |-> [root EXCEPT !.flock = p]]
    ELSE [res |-> "wait", lock_fd |-> openat_lock(root), root |-> root]

\* apk_db_open, the block under (ac->open_flags & APK_OPENF_WRITE): res is
\* "ok" when the open goes on, "err" for goto ret_errno, "wait" when the
\* process blocks in flock(LOCK_EX) with the alarm armed.
open_lock(p, open_flags, lock_wait, root) ==
    IF APK_OPENF_WRITE \notin open_flags
    THEN [res |-> "ok", lock_fd |-> 0, root |-> root]
    ELSE IF openat_lock(root) < 0
    THEN [res |-> IF APK_OPENF_CREATE \notin open_flags THEN "err" ELSE "ok",
          lock_fd |-> openat_lock(root), root |-> root]
    ELSE IF root.flock = 0
    THEN [res |-> "ok", lock_fd |-> openat_lock(root),
          root |-> [root EXCEPT !.flock = p]]
    ELSE [res |-> IF lock_wait = 0 THEN "err" ELSE "wait",
          lock_fd |-> openat_lock(root), root |-> root]

\* apk_db_close: close(db->lock_fd) when lock_fd > 0; closing the descriptor
\* drops the flock of the process if it has it.
close_lock(p, lock_fd, root) ==
    IF lock_fd > 0 /\ root.flock = p THEN [root EXCEPT !.flock = 0] ELSE root

\* apk_db_write_config up to the first write: "written" when it goes on to
\* write below the root, "refused" for the return -1.
write_config_lock(db) ==
    IF APK_OPENF_CREATE \in db.open_flags THEN "written"
    ELSE IF db.lock_fd = 0 THEN "refused"
    ELSE "written"

InitLock ==
    /\ dbs = [p \in Procs |-> ClosedDb]
    /\ \E dir \in BOOLEAN : held = [flock |-> 0, dir |-> dir]
    /\ ctx = IdleCtx(0)
    /\ hist = [op |-> "init"]

\* apk_db_open by process p; rest tells whether the part of apk_db_open
\* after the lock (mount_proc, reading the layers) succeeds.
LockOpen(p, open_flags, lock_wait, rest) ==
    /\ dbs[p].st = "closed"
    /\ \E l \in {open_lock(p, open_flags, lock_wait, held)} :
          IF open_flags = {} \/ l.res = "err" \/ (l.res = "ok" /\ ~rest)
          THEN /\ dbs' = [dbs EXCEPT ![p] = ClosedDb]
               /\ held' = IF open_flags = {} THEN held
                          ELSE close_lock(p, l.lock_fd, l.root)
               /\ hist' = [op |-> "open", p |-> p, r |-> -1,
                           open_flags |-> open_flags, flock |-> held.flock,
                           lock_wait |-> lock_wait, waited |-> FALSE]
          ELSE /\ dbs' = [dbs EXCEPT ![p] =
                             [st |-> IF l.res = "ok" THEN "open" ELSE "waiting",
                              open_flags |-> open_flags, lock_fd |-> l.lock_fd]]
               /\ held' = l.root
               /\ hist' = [op |-> IF l.res = "ok" THEN "open" ELSE "wait",
                           p |-> p, r |-> 0,
                           open_flags |-> open_flags, flock |-> held.flock,
                           lock_wait |-> lock_wait, waited |-> FALSE]
    /\ UNCHANGED ctx

\* The blocking flock(db->lock_fd, LOCK_EX) of process p returns 0.
LockGranted(p, rest) ==
    /\ dbs[p].st = "waiting"
    /\ held.flock = 0
    /\ IF rest
       THEN /\ dbs' = [dbs EXCEPT ![p].st = "open"]
            /\ held' = [held EXCEPT !.flock = p]
       ELSE /\ dbs' = [dbs EXCEPT ![p] = ClosedDb]
            /\ held' = held
    /\ hist' = [op |-> "open", p |-> p, r |-> IF rest THEN 0 ELSE -1,
                open_flags |-> dbs[p].open_flags, flock |-> held.flock,
                waited |-> TRUE]
    /\ UNCHANGED ctx

\* SIGALRM after lock_wait seconds: the blocking flock fails with EINTR.
LockAlarm(p) ==
    /\ dbs[p].st = "waiting"
    /\ dbs' = [dbs EXCEPT ![p] = ClosedDb]
    /\ held' = close_lock(p, dbs[p].lock_fd, held)
    /\ hist' = [op |-> "open", p |-> p, r |-> -1,
                open_flags |-> dbs[p].open_flags, flock |-> held.flock,
                waited |-> TRUE]
    /\ UNCHANGED ctx

\* apk_db_write_config by process p.
LockWriteConfig(p) ==
    /\ dbs[p].st = "open"
    /\ held' = IF APK_OPENF_CREATE \in dbs[p].open_flags
               THEN [held EXCEPT !.dir = TRUE] ELSE held
    /\ hist' = [op |-> "write_config", p |-> p, r |-> write_config_lock(dbs[p]),
                flock |-> held.flock]
    /\ UNCHANGED <<dbs, ctx>>

\* apk_db_close by process p.
LockClose(p) ==
    /\ dbs[p].st = "open"
    /\ dbs' = [dbs EXCEPT ![p] = ClosedDb]
    /\ held' = close_lock(p, dbs[p].lock_fd, held)
    /\ hist' = [op |-> "close", p |-> p]
    /\ UNCHANGED ctx

NextLock ==
    \/ \E p \in Procs, open_flags \in OpenFlags, lock_wait \in {0, 1}, rest \in BOOLEAN :
          LockOpen(p, open_flags, lock_wait, rest)
    \/ \E p \in Procs, rest \in BOOLEAN : LockGranted(p, rest)
    \/ \E p \in Procs : LockAlarm(p)
    \/ \E p \in Procs : LockWriteConfig(p)
    \/ \E p \in Procs : LockClose(p)

SpecLock == InitLock /\ [][NextLock]_vars

\* alarm(ac->lock_wait) delivers SIGALRM to a process that is still blocked.
SpecLockLive == SpecLock /\ \A p \in Procs : WF_vars(LockAlarm(p))

---------------------------------------------------------------------------
(* The package registry (db->available.packages).  In SpecPkg dbs is the    *)
(* registry: dbs.pkgs is the heap of struct apk_package, dbs.packages the   *)
(* hash table as the sequence of the packages inserted, dbs.providers maps  *)
(* a name to its provider array, dbs.ipkgs is the heap of struct            *)
(* apk_installed_package.  NULLSTR is a NULL string or atom.                *)

MaxAdds == 2
MaxCsum == 2

NULLSTR == "NULL"
APK_REPOSITORY_CACHED == 0

\* The packages handed to apk_db_pkg_add: has_ipkg tells whether pkg->ipkg is
\* set (apk_pkg_install was called on it before).
NewPkgs ==
    [name : {NULLSTR, "a", "b"}, version : {NULLSTR, "1"}, csum : 1..MaxCsum,
     repos : SUBSET {APK_REPOSITORY_CACHED, 1}, filename : {NULLSTR, "f.apk"},
     has_ipkg : BOOLEAN, provides : {<<>>, <<"v">>}]

\* apk_hash_get(&db->available.packages, APK_BLOB_CSUM(csum)): the first
\* package of the table with that digest, 0 when there is none.
packages_get(db, csum) ==
    IF \E i \in 1..Len(db.packages) : db.pkgs[db.packages[i]].csum = csum
    THEN db.packages[Result({ i \in 1..Len(db.packages) :
                 /\ db.pkgs[db.packages[i]].csum = csum
                 /\ \A j \in 1..(i-1) : db.pkgs[db.packages[j]].csum # csum })]
    ELSE 0

\* if (pkg->filename) pkg->repos |= BIT(APK_REPOSITORY_CACHED)
pkg_add_cached(pkg) ==
    IF pkg.filename # NULLSTR
    THEN [pkg EXCEPT !.repos = @ \union {APK_REPOSITORY_CACHED}] ELSE pkg

\* add_provider for the package itself and for each of pkg->provides.
RECURSIVE add_provides(_, _, _, _)
add_provides(providers, id, provides, i) ==
    IF i > Len(provides) THEN providers
    ELSE add_provides(
            [providers EXCEPT ![provides[i]] = Append(@, [pkg |-> id, from |-> "provides"])],
            id, provides, i + 1)

\* apk_db_pkg_add, idb == NULL: the package object id (with the installed
\* package ip, 0 when it has none) is inserted.
pkg_add_insert(db, id, ip, pkg) ==
    [db EXCEPT
       !.pkgs = Put(@, id, [name |-> pkg.name, version |-> pkg.version,
                            csum |-> pkg.csum, repos |-> pkg.repos,
                            filename |-> pkg.filename, ipkg |-> ip]),
       !.packages = Append(@, id),
       !.providers = add_provides(
            [@ EXCEPT ![pkg.name] = Append(@, [pkg |-> id, from |-> "package"])],
            id, pkg.provides, 1)]

\* A variant of pkg_add_merge that takes over the filename and the ipkg of
\* the new package whenever it has them.
pkg_add_merge_overwriting(db, idb, ip, pkg) ==
    [db EXCEPT
       !.pkgs[idb].repos = @ \union pkg.repos,
       !.pkgs[idb].filename = IF pkg.filename # NULLSTR THEN pkg.filename ELSE @,
       !.pkgs[idb].ipkg = IF ip # 0 THEN ip ELSE @,
       !.ipkgs = IF ip # 0 THEN [@ EXCEPT ![ip].pkg = idb] ELSE @]

\* apk_db_pkg_add, idb != NULL: merge into the package idb of the registry;
\* the ipkg of the new package is freed with it when it is not taken over.
pkg_add_merge(db, idb, ip, pkg) ==
    [db EXCEPT
       !.pkgs[idb].repos = @ \union pkg.repos,
       !.pkgs[idb].filename =
           IF @ = NULLSTR /\ pkg.filename # NULLSTR THEN pkg.filename ELSE @,
       !.pkgs[idb].ipkg = IF @ = 0 /\ ip # 0 THEN ip ELSE @,
       !.ipkgs = IF ip = 0 THEN @
                 ELSE IF db.pkgs[idb].ipkg = 0 THEN [@ EXCEPT ![ip].pkg = idb]
                 ELSE Drop(@, ip)]

\* apk_db_pkg_add past the name and version test: id is the address of pkg,
\* ip the address of its ipkg.
pkg_add_found(db, idb, id, ip, pkg) ==
    IF idb = 0
    THEN [db |-> pkg_add_insert(db, id, ip, pkg), idb |-> id]
    ELSE [db |-> pkg_add_merge(db, idb, ip, pkg), idb |-> idb]

apk_db_pkg_add(db, id, ip, pkg) ==
    IF pkg.name = NULLSTR \/ pkg.version = NULLSTR
    THEN [db |-> db, idb |-> 0]
    ELSE pkg_add_found(db, packages_get(db, pkg.csum), id, ip, pkg_add_cached(pkg))

InitPkg ==
    /\ dbs = [pkgs |-> [x \in {} |-> 0], packages |-> <<>>,
              providers |-> [n \in {"a", "b", "v"} |-> <<>>],
              ipkgs |-> [x \in {} |-> 0], adds |-> 0]
    /\ held = [x \in {} |-> 0]
    /\ ctx = IdleCtx(0)
    /\ hist = [op |-> "init"]

\* A caller builds pkg (apk_pkg_new, apk_pkg_install when has_ipkg) and hands
\* it to apk_db_pkg_add.
PkgAdd(pkg) ==
    /\ dbs.adds < MaxAdds
    /\ \E id \in {dbs.adds + 1}, ip \in {IF pkg.has_ipkg THEN dbs.adds + 1 ELSE 0} :
       \E res \in {apk_db_pkg_add(
                     [dbs EXCEPT !.ipkgs = IF ip # 0 THEN Put(@, ip, [pkg |-> id]) ELSE @],
                     id, ip, pkg)} :
          /\ dbs' = [res.db EXCEPT !.adds = @ + 1]
          /\ hist' = [op |-> "pkg_add", pkg |-> pkg, ip |-> ip, idb |-> res.idb,
                      found |-> packages_get(dbs, pkg.csum), before |-> dbs]
    /\ UNCHANGED <<held, ctx>>

NextPkg == \E pkg \in NewPkgs : PkgAdd(pkg)

SpecPkg == InitPkg /\ [][NextPkg]_vars

---------------------------------------------------------------------------
(* Opening a root with an overlay.  In SpecOverlay apk_db_open reads the    *)
(* list of overlay files from stdin and then lib/apk/db/installed; the     *)
(* overlay list is whatever its producer wrote, one path per line.         *)

MaxLines == 2

\* The lines of an overlay list: etc/, etc/f, etc//f, etc/g, usr/f.
OverlayLines ==
    { <<"e", "/">>, <<"e", "/", "f">>, <<"e", "/", "/", "f">>,
      <<"e", "/", "g">>, <<"u", "/", "f">> }

OverlayLists == UNION { [1..n -> OverlayLines] : n \in 0..MaxLines }

\* The installed databases of the roots: A owns etc/f, with or without
\* checksum and further files.
OverlayInstalled ==
    { TextA } \cup { FdbText(0, "", <<>>, "default", "default", csum, more) :
                        csum \in {"NONE", "SHA1"}, more \in BOOLEAN }

InitOverlay ==
    /\ dbs = InitDb({}, ReplacesCC)
    /\ held = [x \in {} |-> 0]
    /\ ctx = IdleCtx(0)
    /\ hist = [op |-> "init"]

\* apk_db_open, APK_OVERLAY_FROM_STDIN: apk_db_read_overlay.
OverlayRead(lines) ==
    /\ hist.op = "init"
    /\ dbs' = apk_db_read_overlay(dbs, lines)
    /\ hist' = [op |-> "read_overlay", lines |-> lines]
    /\ UNCHANGED <<held, ctx>>

\* apk_db_open, apk_db_read_layer: apk_db_fdb_read of the installed database.
OverlayReadLayer(text) ==
    /\ hist.op \in {"init", "read_overlay"}
    /\ \E res \in {apk_db_fdb_read(dbs, text)} :
          /\ dbs' = res.db
          /\ hist' = [op |-> "read_layer", r |-> res.r]
    /\ UNCHANGED <<held, ctx>>

NextOverlay ==
    \/ \E lines \in OverlayLists : OverlayRead(lines)
    \/ \E text \in OverlayInstalled : OverlayReadLayer(text)

SpecOverlay == InitOverlay /\ [][NextOverlay]_vars

---------------------------------------------------------------------------
(* Archives with hard links.  SpecLink runs apk_db_install_pkg on archives  *)
(* whose entries are regular files and hard links to them, on an empty     *)
(* root and on a root where A owns etc/f.                                  *)

\* A hard link entry: a regular file with a link target and no digest.
LinkEntry(name, link_target) ==
    Entry(name, "reg", 1, "NONE", apk_default_acl_file, "OK", "OK", link_target)

LinkEntries ==
    { DirEntry(<<"e">>, ACL_OTHER, "ENOENT"),
      RegEntry(<<"f">>, 1, "SHA1", "OK"),
      RegEntry(<<"e", "/", "f">>, MaxContent, "SHA1", "OK"),
      LinkEntry(<<"g">>, <<"f">>),
      LinkEntry(<<"e", "/", "g">>, <<"e", "/", "f">>),
      LinkEntry(<<"e", "/", "g">>, <<"e", "/", "h">>) }

InitLink ==
    /\ \E root \in {Root({}, ReplacesCC, <<>>, <<>>, 1),
                    Root({}, ReplacesYN, <<>>, TextA, 1)} : dbs = apk_db_open(root)
    /\ held = [x \in {} |-> 0]
    /\ ctx = IdleCtx(0)
    /\ hist = [op |-> "open"]

NextLink ==
    \/ \E o \in {"A", NULLPKG} : InstallBegin(o, "A")
    \/ \E ae \in LinkEntries : InstallFile(ae)
    \/ \E xr \in {-1} : InstallFail(xr)
    \/ InstallEnd

SpecLink == InitLink /\ [][NextLink]_vars

---------------------------------------------------------------------------
(* Installs into directories of both priorities: the archives of SpecPrio   *)
(* have the uvol directory u, a file in it and a file in the root           *)
(* directory, which is on the disk.                                         *)

PrioEntries ==
    { DirEntry(<<"u">>, ACL_OTHER, "ENOENT"),
      DirEntry(<<"e">>, ACL_OTHER, "ENOENT"),
      RegEntry(<<"u", "/", "f">>, 1, "SHA1", "OK"),
      RegEntry(<<"e", "/", "f">>, 1, "SHA1", "OK"),
      RegEntry(<<"f">>, 1, "SHA1", "OK") }

NextPrio ==
    \/ \E o \in {"A", NULLPKG} : InstallBegin(o, "A")
    \/ \E ae \in PrioEntries : InstallFile(ae)
    \/ \E xr \in {-1} : InstallFail(xr)
    \/ InstallEnd

SpecPrio == InitLink /\ [][NextPrio]_vars

---------------------------------------------------------------------------
(* The lines of the installed database as apk_istream_get_delim returns    *)
(* them: a raw line is the sequence of its characters.  SpecFdbRaw reads   *)
(* texts of raw lines.                                                     *)

MaxRawLines == 3

\* The value of field f as the field handlers of the model take it: the
\* package of a P: line is named by its one letter.
fdb_raw_value(f, l) == IF f = "P" /\ Len(l) = 1 THEN l[1] ELSE l

\* One turn of the loop of apk_db_fdb_read from the raw line l: a line of
\* fewer than two characters is handled by the l.len < 2 branch, a line whose
\* second character is not ':' leaves through err_fmt.
fdb_read_raw_line(db, rs, l) ==
    IF Len(l) < 2 THEN fdb_read_end(db, rs)
    ELSE IF l[2] # ":" THEN [db |-> db, rs |-> [rs EXCEPT !.r = -1]]
    ELSE fdb_read_line(db, rs, Line(l[1], fdb_raw_value(l[1], SubSeq(l, 3, Len(l)))))

RECURSIVE fdb_read_raw_lines(_, _, _)
fdb_read_raw_next(n, text) == fdb_read_raw_lines(n.db, n.rs, text)

\* The loop over raw lines: [db, r, rs], rs the locals at the end.
fdb_read_raw_lines(db, rs, text) ==
    IF text = <<>> \/ rs.r # 0 THEN [db |-> db, r |-> rs.r, rs |-> rs]
    ELSE fdb_read_raw_next(fdb_read_raw_line(db, rs, Head(text)), Tail(text))

\* P:A, F:e, R:f, f:x, f:fzS with the unknown flag letter z, the empty line,
\* and malformed lines: a single character, two characters without colon, a
\* field letter followed by a space.
RawLines ==
    { <<"P", ":", "A">>, <<"F", ":", "e">>, <<"R", ":", "f">>, <<>>,
      <<"f", ":", "x">>, <<"f", ":", "f", "z", "S">>,
      <<"X">>, <<"P", "A">>, <<"F", " ", "e">> }

RawTexts == UNION { [1..n -> RawLines] : n \in 0..MaxRawLines }

\* The database before the read: the ipkg table has a place for the package
\* that has no name yet.
RawDb(flags) == [InitDb(flags, ReplacesCC) EXCEPT !.ipkg = @ @@ (NONAME :> NULLIPKG)]

InitFdbRaw ==
    /\ \E flags \in {{}, {APK_FORCE_OLD_APK}} : dbs = RawDb(flags)
    /\ held = [x \in {} |-> 0]
    /\ ctx = IdleCtx(0)
    /\ hist = [op |-> "init"]

\* apk_db_fdb_read of the installed database text.
FdbReadRaw(text) ==
    /\ hist.op = "init"
    /\ \E res \in {fdb_read_raw_lines(dbs, FdbLocals, text)} :
          /\ dbs' = res.db
          /\ hist' = [op |-> "fdb_read_raw", text |-> text, r |-> res.r,
                      pkg |-> res.rs.pkg]
    /\ UNCHANGED <<held, ctx>>

NextFdbRaw == \E text \in RawTexts : FdbReadRaw(text)

SpecFdbRaw == InitFdbRaw /\ [][NextFdbRaw]_vars

---------------------------------------------------------------------------
(* The trigger engine.  In SpecTrig dbs holds the Dirs of installed.dirs    *)
(* with their rooted names, the list installed.triggers, the trigger        *)
(* packages' ipkgs and the counter db->pending_triggers.                    *)

MaxSweeps == 2

\* The placeholder for the script name: the NULL entry of pending_triggers.
NULLNAME == <<>>

\* fnmatch(pattern, string, FNM_PATHNAME) = 0: '*' matches any run of
\* characters other than '/'.
RECURSIVE glob_match(_, _)
glob_match(pattern, string) ==
    IF pattern = <<>> THEN string = <<>>
    ELSE IF Head(pattern) = "*"
    THEN \/ glob_match(Tail(pattern), string)
         \/ string # <<>> /\ Head(string) # "/" /\ glob_match(pattern, Tail(string))
    ELSE string # <<>> /\ Head(string) = Head(pattern)
         /\ glob_match(Tail(pattern), Tail(string))

fnmatch_pathname(pattern, string) == IF glob_match(pattern, string) THEN 0 ELSE 1

\* The append of fire_triggers: the placeholder first when the list is empty.
fire_append(db, p, d) ==
    [db EXCEPT
       !.ipkg[p].pending_triggers =
          (IF @ = <<>> THEN <<NULLNAME>> ELSE @) \o <<db.dirs[d].rooted_name>>,
       !.pending_triggers = IF db.ipkg[p].pending_triggers = <<>> THEN @ + 1 ELSE @]

\* A variant of fire_globs that goes on after an append.
RECURSIVE fire_globs_all(_, _, _, _)
fire_globs_all(db, p, d, i) ==
    IF i > Len(db.ipkg[p].triggers) THEN db
    ELSE IF Len(db.ipkg[p].triggers[i]) = 0 \/ db.ipkg[p].triggers[i][1] # "/"
    THEN fire_globs_all(db, p, d, i + 1)
    ELSE IF fnmatch_pathname(db.ipkg[p].triggers[i], db.dirs[d].rooted_name) # 0
    THEN fire_globs_all(db, p, d, i + 1)
    ELSE fire_globs_all(fire_append(db, p, d), p, d, i + 1)

\* The for loop of fire_triggers over the globs of ipkg p from the i-th on.
RECURSIVE fire_globs(_, _, _, _)
fire_globs(db, p, d, i) ==
    IF i > Len(db.ipkg[p].triggers) THEN db
    ELSE IF Len(db.ipkg[p].triggers[i]) = 0 \/ db.ipkg[p].triggers[i][1] # "/"
    THEN fire_globs(db, p, d, i + 1)
    ELSE IF fnmatch_pathname(db.ipkg[p].triggers[i], db.dirs[d].rooted_name) # 0
    THEN fire_globs(db, p, d, i + 1)
    ELSE fire_append(db, p, d)

\* fire_triggers(dbd): the loop over installed.triggers from the list l on.
RECURSIVE fire_triggers(_, _, _)
fire_triggers(db, d, l) ==
    IF l = <<>> THEN db
    ELSE IF ~db.ipkg[Head(l)].run_all_triggers /\ ~db.dirs[d].modified
    THEN fire_triggers(db, d, Tail(l))
    ELSE fire_triggers(fire_globs(db, Head(l), d, 1), d, Tail(l))

\* apk_hash_foreach(&db->installed.dirs, fire_triggers, db) over the Dirs ds.
RECURSIVE fire_foreach(_, _)
fire_foreach(db, ds) ==
    IF ds = <<>> THEN db
    ELSE fire_foreach(fire_triggers(db, Head(ds), db.triggers), Tail(ds))

\* apk_db_fire_triggers: [db, r]
apk_db_fire_triggers(db) ==
    [db |-> fire_foreach(db, [i \in 1..Len(db.dirs) |-> i]),
     r  |-> fire_foreach(db, [i \in 1..Len(db.dirs) |-> i]).pending_triggers]

\* The rooted names of the Dirs of SpecTrig: /, /m, /m/k.
TrigDirNames == << <<"/">>, <<"/", "m">>, <<"/", "m", "/", "k">> >>

\* The trigger lists a package registers: /m/*; /* and /m; the unrooted m/*;
\* /* and /m/*.
TrigLists ==
    { << <<"/", "m", "/", "*">> >>,
      << <<"/", "*">>, <<"/", "m">> >>,
      << <<"m", "/", "*">> >>,
      << <<"/", "m", "*">>, <<"/", "m", "/", "*">> >> }

TrigPkgs == {"T", "U"}

\* The ipkgs after the triggers file was read: nothing is pending.
InitTrig ==
    /\ \E ms \in SUBSET (1..Len(TrigDirNames)), tl \in [TrigPkgs -> TrigLists],
          ra \in SUBSET TrigPkgs :
          dbs = [dirs |-> [i \in 1..Len(TrigDirNames) |->
                             [rooted_name |-> TrigDirNames[i], modified |-> i \in ms]],
                 triggers |-> <<"T", "U">>,
                 ipkg |-> [p \in TrigPkgs |->
                             [triggers |-> tl[p], run_all_triggers |-> p \in ra,
                              pending_triggers |-> <<>>]],
                 pending_triggers |-> 0]
    /\ held = 0
    /\ ctx = [sweeps |-> 0]
    /\ hist = [op |-> "init"]

\* apk_db_fire_triggers
FireTriggers ==
    /\ ctx.sweeps < MaxSweeps
    /\ \E res \in {apk_db_fire_triggers(dbs)} :
          /\ dbs' = res.db
          /\ hist' = [op |-> "fire", r |-> res.r,
                      before |-> [p \in TrigPkgs |-> Len(dbs.ipkg[p].pending_triggers)]]
    /\ ctx' = [sweeps |-> ctx.sweeps + 1]
    /\ UNCHANGED held

\* An install or a purge marks the Dir d modified.
TrigModify(d) ==
    /\ ctx.sweeps < MaxSweeps
    /\ ~dbs.dirs[d].modified
    /\ dbs' = [dbs EXCEPT !.dirs[d].modified = TRUE]
    /\ hist' = [op |-> "modify", dir |-> d]
    /\ UNCHANGED <<held, ctx>>

NextTrig ==
    \/ FireTriggers
    \/ \E d \in 1..Len(TrigDirNames) : TrigModify(d)

SpecTrig == InitTrig /\ [][NextTrig]_vars

---------------------------------------------------------------------------
(* Repositories.  In SpecRepo dbs holds db->repos (the urls), num_repos,    *)
(* the bit sets available_repos, local_repos and the allowed_repos of the   *)
(* default tag, and the counters db->repositories.                          *)

MaxRepoAdds == 2

APK_MAX_REPOS == 32
APK_REPOSITORY_FIRST_CONFIGURED == 1
EALREADY == 114

APK_NO_NETWORK == "NO_NETWORK"
APK_NO_CACHE == "NO_CACHE"
APK_FORCE_MISSING_REPOSITORIES == "FORCE_MISSING_REPOSITORIES"

\* apk_url_local_file(url) == NULL: the url names a scheme.
is_remote(url) == Contains(url, <<":">>)

\* A variant of add_repository_err that counts the failure of every
\* repository.
add_repository_err_all(db, repo_num, remote, r, update_error) ==
    [db EXCEPT
       !.repositories.unavailable = IF r # 0 THEN @ + 1 ELSE @,
       !.repositories.stale = IF r = 0 /\ update_error # 0 THEN @ + 1 ELSE @,
       !.available_repos = IF r # 0 THEN @ \ {repo_num} ELSE @,
       !.allowed_repos = IF r = 0 THEN @ \cup {repo_num} ELSE @]

\* apk_db_add_repository from the label err on.
add_repository_err(db, repo_num, remote, r, update_error) ==
    [db EXCEPT
       !.repositories.unavailable =
          IF (r # 0 \/ update_error # 0) /\ remote /\ r # 0 THEN @ + 1 ELSE @,
       !.repositories.stale =
          IF (r # 0 \/ update_error # 0) /\ remote /\ r = 0 THEN @ + 1 ELSE @,
       !.available_repos = IF r # 0 THEN @ \ {repo_num} ELSE @,
       !.allowed_repos = IF r = 0 THEN @ \cup {repo_num} ELSE @]

\* The remote branch with the cache: [db, r, update_error]; env.download is
\* what apk_cache_download returns, env.cache_index what
\* apk_repo_format_cache_index returns, env.load what load_index returns.
add_repository_cached(db, env) ==
    Result({
      [db |-> IF db.autoupdate /\ env.download = 0
              THEN [db EXCEPT !.repositories.updated = @ + 1] ELSE db,
       r |-> IF env.cache_index # 0 THEN env.cache_index ELSE env.load,
       update_error |-> ue]
      : ue \in {IF db.autoupdate /\ env.download # -EALREADY THEN env.download ELSE 0} })

\* apk_db_add_repository from the new slot repo_num on: [db, r, update_error]
add_repository_open(db, repo_num, remote, env) ==
    IF env.real_url # 0 THEN [db |-> db, r |-> env.real_url, update_error |-> 0]
    ELSE IF ~remote
    THEN [db |-> [db EXCEPT !.local_repos = @ \cup {repo_num},
                            !.available_repos = @ \cup {repo_num}],
          r |-> env.load, update_error |-> 0]
    ELSE IF APK_NO_CACHE \in db.flags
    THEN [db |-> IF APK_NO_NETWORK \notin db.flags
                 THEN [db EXCEPT !.available_repos = @ \cup {repo_num}] ELSE db,
          r |-> env.load, update_error |-> 0]
    ELSE add_repository_cached(
           IF APK_NO_NETWORK \notin db.flags
           THEN [db EXCEPT !.available_repos = @ \cup {repo_num}] ELSE db,
           env)

\* The new repository in slot db.num_repos.
add_repository_new(db, url, env) ==
    Result({
      [db |-> add_repository_err(o.db, db.num_repos, is_remote(url), o.r, o.update_error),
       r |-> 0, load |-> o.r, repo_num |-> db.num_repos]
      : o \in {add_repository_open(
                 [db EXCEPT !.num_repos = @ + 1,
                            !.repos = [i \in 0..db.num_repos |->
                                         IF i = db.num_repos THEN url ELSE @[i]]],
                 db.num_repos, is_remote(url), env)} })

\* apk_db_add_repository without a tag: [db, r, load, repo_num]; load is the
\* value of r at the label err, repo_num -1 when no slot was taken.
apk_db_add_repository(db, repository, env) ==
    IF repository = <<>> \/ repository[1] = "#"
    THEN [db |-> db, r |-> 0, load |-> 0, repo_num |-> -1]
    ELSE IF \E k \in 0..(db.num_repos - 1) : db.repos[k] = repository
    THEN [db |-> [db EXCEPT !.allowed_repos =
                    @ \cup ({CHOOSE k \in 0..(db.num_repos - 1) : db.repos[k] = repository}
                            \cap db.available_repos)],
          r |-> 0, load |-> 0, repo_num |-> -1]
    ELSE IF db.num_repos >= APK_MAX_REPOS
    THEN [db |-> db, r |-> -1, load |-> 0, repo_num |-> -1]
    ELSE add_repository_new(db, repository, env)

apk_db_repository_check(db) ==
    IF APK_FORCE_MISSING_REPOSITORIES \in db.flags THEN 0
    ELSE IF db.repositories.stale = 0 /\ db.repositories.unavailable = 0 THEN 0
    ELSE -1

\* The lines of the repositories file: empty, a comment, two local paths and
\* two remote urls.
RepoLines ==
    { <<>>, <<"#", "a">>, <<"/", "a">>, <<"/", "b">>,
      <<"h", ":", "a">>, <<"h", ":", "b">> }

\* What the url formatter, the cache download and the index loader return.
RepoEnvs ==
    [real_url : {0, -1}, download : {0, -EALREADY, -1}, cache_index : {0, -1},
     load : {0, -1}]

\* The database after apk_db_init; the cache is repository 0.
InitRepo ==
    /\ \E flags \in SUBSET {APK_NO_NETWORK, APK_NO_CACHE, APK_FORCE_MISSING_REPOSITORIES},
          autoupdate \in BOOLEAN :
          dbs = [num_repos |-> APK_REPOSITORY_FIRST_CONFIGURED,
                 repos |-> [i \in {APK_REPOSITORY_CACHED} |-> <<"c">>],
                 available_repos |-> {APK_REPOSITORY_CACHED},
                 local_repos |-> {APK_REPOSITORY_CACHED},
                 allowed_repos |-> {},
                 repositories |-> [updated |-> 0, stale |-> 0, unavailable |-> 0],
                 flags |-> flags, autoupdate |-> autoupdate]
    /\ held = 0
    /\ ctx = [n |-> 0, failed |-> {}]
    /\ hist = [op |-> "init"]

\* apk_db_add_repository(db, repository); ctx.failed collects the slots of
\* the repositories whose index did not load.
RepoAdd(repository, env) ==
    /\ ctx.n < MaxRepoAdds
    /\ \E res \in {apk_db_add_repository(dbs, repository, env)} :
          /\ dbs' = res.db
          /\ ctx' = [n |-> ctx.n + 1,
                     failed |-> IF res.load # 0 THEN ctx.failed \cup {res.repo_num}
                                ELSE ctx.failed]
          /\ hist' = [op |-> "add", r |-> res.r, load |-> res.load,
                      repo_num |-> res.repo_num,
                      counted |-> dbs.repositories.stale + dbs.repositories.unavailable]
    /\ UNCHANGED held

\* apk_db_repository_check(db)
RepoCheck ==
    /\ hist.op # "check"
    /\ hist' = [op |-> "check", r |-> apk_db_repository_check(dbs)]
    /\ UNCHANGED <<dbs, held, ctx>>

NextRepo ==
    \/ \E repository \in RepoLines, env \in RepoEnvs : RepoAdd(repository, env)
    \/ RepoCheck

SpecRepo == InitRepo /\ [][NextRepo]_vars

---------------------------------------------------------------------------
(* The phases of apk_db_install_pkg.  In SpecPhase dbs is the set of the    *)
(* packages that have an ipkg, ctx the install_ctx and the position of the  *)
(* extractor, and hist.log the sequence of the calls made so far: scripts   *)
(* run, entries staged, migration, purges and uninstalls.                   *)

MaxCallbacks == 3

APK_SCRIPT_PRE_INSTALL    == "pre-install"
APK_SCRIPT_POST_INSTALL   == "post-install"
APK_SCRIPT_PRE_DEINSTALL  == "pre-deinstall"
APK_SCRIPT_POST_DEINSTALL == "post-deinstall"
APK_SCRIPT_PRE_UPGRADE    == "pre-upgrade"
APK_SCRIPT_POST_UPGRADE   == "post-upgrade"

EvScript(type)  == [ev |-> "script", arg |-> type]
EvStage(n)      == [ev |-> "stage", arg |-> n]
EvMigrate(pkg)  == [ev |-> "migrate", arg |-> pkg]
EvPurge(pkg)    == [ev |-> "purge", arg |-> pkg]
EvCancel(pkg)   == [ev |-> "cancel", arg |-> pkg]
EvUninstall(pkg) == [ev |-> "uninstall", arg |-> pkg]

\* apk_db_run_pending_script: [ic, log]
phase_run_pending_script(ic, log) ==
    IF ~ic.script_pending THEN [ic |-> ic, log |-> log]
    ELSE [ic |-> [ic EXCEPT !.script_pending = FALSE],
          log |-> Append(log, EvScript(ic.script))]

\* "Just purging?": the branch of apk_db_install_pkg for newpkg == NULL.
phase_remove(installed, oldpkg) ==
    IF oldpkg \notin installed THEN [installed |-> installed, log |-> <<>>]
    ELSE [installed |-> installed \ {oldpkg},
          log |-> << EvScript(APK_SCRIPT_PRE_DEINSTALL), EvPurge(oldpkg),
                     EvScript(APK_SCRIPT_POST_DEINSTALL), EvUninstall(oldpkg) >>]

\* A variant of phase_finish that purges the old package first.
phase_finish_purging_first(installed, log, oldpkg, newpkg, unpacked) ==
    IF oldpkg # NULLPKG /\ oldpkg # newpkg /\ oldpkg \in installed
    THEN [installed |-> installed \ {oldpkg},
          log |-> log \o << EvPurge(oldpkg), EvUninstall(oldpkg) >>
                      \o (IF unpacked THEN << EvMigrate(newpkg) >> ELSE <<>>)
                      \o << EvScript(APK_SCRIPT_POST_UPGRADE) >>]
    ELSE [installed |-> installed,
          log |-> log \o (IF unpacked THEN << EvMigrate(newpkg) >> ELSE <<>>)
                      \o << EvScript(IF oldpkg = NULLPKG THEN APK_SCRIPT_POST_INSTALL
                                     ELSE APK_SCRIPT_POST_UPGRADE) >>]

\* apk_db_install_pkg after a successful apk_db_unpack_pkg (unpacked) or
\* for a package with installed_size == 0.
phase_finish(installed, log, oldpkg, newpkg, unpacked) ==
    Result({
      [installed |-> IF old THEN installed \ {oldpkg} ELSE installed,
       log |-> log \o (IF unpacked THEN << EvMigrate(newpkg) >> ELSE <<>>)
                   \o (IF old THEN << EvPurge(oldpkg), EvUninstall(oldpkg) >> ELSE <<>>)
                   \o << EvScript(IF oldpkg = NULLPKG THEN APK_SCRIPT_POST_INSTALL
                                  ELSE APK_SCRIPT_POST_UPGRADE) >>]
      : old \in {oldpkg # NULLPKG /\ oldpkg # newpkg /\ oldpkg \in installed} })

\* apk_db_install_pkg after a failed apk_db_unpack_pkg.
phase_fail(installed, log, oldpkg, newpkg) ==
    [installed |-> installed \ {newpkg},
     log |-> log \o (IF oldpkg # newpkg THEN << EvCancel(newpkg) >> ELSE <<>>)
                 \o << EvUninstall(newpkg) >>]

IdlePhase == [pc |-> "idle", oldpkg |-> NULLPKG, newpkg |-> NULLPKG,
              script |-> APK_SCRIPT_PRE_INSTALL, script_pending |-> FALSE,
              data |-> FALSE, n |-> 0, r |-> 0]

InitPhase ==
    /\ dbs \in SUBSET {"A", "B"}
    /\ held = 0
    /\ ctx = IdlePhase
    /\ hist = [log |-> <<>>]

\* apk_db_install_pkg(db, oldpkg, NULL)
PhaseRemove(oldpkg) ==
    /\ ctx.pc = "idle"
    /\ \E res \in {phase_remove(dbs, oldpkg)} :
          /\ dbs' = res.installed
          /\ hist' = [log |-> res.log]
    /\ ctx' = [ctx EXCEPT !.pc = "done", !.oldpkg = oldpkg]
    /\ UNCHANGED held

\* apk_db_install_pkg(db, oldpkg, newpkg) up to the call of the extractor,
\* and to its end for a package with installed_size == 0.
PhaseBegin(oldpkg, newpkg, installed_size) ==
    /\ ctx.pc = "idle"
    /\ oldpkg \in dbs \cup {NULLPKG}
    /\ IF installed_size # 0
       THEN /\ dbs' = dbs \cup {newpkg}
            /\ ctx' = [ctx EXCEPT !.pc = "unpack", !.oldpkg = oldpkg, !.newpkg = newpkg,
                                  !.script = IF oldpkg # NULLPKG
                                             THEN APK_SCRIPT_PRE_UPGRADE
                                             ELSE APK_SCRIPT_PRE_INSTALL]
            /\ hist' = hist
       ELSE \E res \in {phase_finish(dbs \cup {newpkg}, <<>>, oldpkg, newpkg, FALSE)} :
               /\ dbs' = res.installed
               /\ ctx' = [ctx EXCEPT !.pc = "done", !.oldpkg = oldpkg, !.newpkg = newpkg,
                                     !.r = 0]
               /\ hist' = [log |-> res.log]
    /\ UNCHANGED held

\* apk_db_install_script: the extractor hands over a script of the control
\* segment, which comes before the data segment.
PhaseScript(type) ==
    /\ ctx.pc = "unpack" /\ ~ctx.data
    /\ ctx.n < MaxCallbacks
    /\ ctx' = [ctx EXCEPT !.script_pending = @ \/ (type = ctx.script), !.n = @ + 1]
    /\ UNCHANGED <<dbs, held, hist>>

\* apk_db_install_file for an entry of the data segment; an entry whose name
\* starts with '.' (dot) is not staged.
PhaseFile(dot) ==
    /\ ctx.pc = "unpack"
    /\ ctx.n < MaxCallbacks
    /\ \E res \in {phase_run_pending_script(ctx, hist.log)} :
          /\ ctx' = [res.ic EXCEPT !.data = TRUE, !.n = @ + 1]
          /\ hist' = [log |-> IF dot THEN res.log ELSE Append(res.log, EvStage(ctx.n))]
    /\ UNCHANGED <<dbs, held>>

\* The rest of apk_db_unpack_pkg and of apk_db_install_pkg once apk_extract
\* has returned r.
PhaseEnd(r) ==
    /\ ctx.pc = "unpack"
    /\ \E res \in {IF r # 0 THEN phase_fail(dbs, hist.log, ctx.oldpkg, ctx.newpkg)
                   ELSE phase_finish(dbs, phase_run_pending_script(ctx, hist.log).log,
                                     ctx.oldpkg, ctx.newpkg, TRUE)} :
          /\ dbs' = res.installed
          /\ hist' = [log |-> res.log]
    /\ ctx' = [ctx EXCEPT !.pc = "done", !.r = r,
                          !.script_pending = IF r = 0 THEN FALSE ELSE @]
    /\ UNCHANGED held

NextPhase ==
    \/ \E oldpkg \in {"A", "B"} : PhaseRemove(oldpkg)
    \/ \E oldpkg \in {NULLPKG, "A", "B"}, installed_size \in {0, 1} :
          PhaseBegin(oldpkg, "A", installed_size)
    \/ \E type \in {APK_SCRIPT_PRE_INSTALL, APK_SCRIPT_PRE_UPGRADE, APK_SCRIPT_POST_INSTALL} :
          PhaseScript(type)
    \/ \E dot \in BOOLEAN : PhaseFile(dot)
    \/ \E r \in {0, -1} : PhaseEnd(r)

SpecPhase == InitPhase /\ [][NextPhase]_vars

---------------------------------------------------------------------------
(* Directory permissions.  apk_db_update_directory_permissions is called   *)
(* by the commit code between transactions; SpecPerm installs and removes  *)
(* packages that share directories and calls it in between.                *)
(* apk_fsdir_update_perms fails for the directories named in fails.  A     *)
(* live directory can be left without an owner (its last DirInstance is    *)
(* freed while a subdirectory keeps it referenced); reading dir->owner->acl *)
(* is then a NULL dereference, whose outcome ub is either the signal that  *)
(* ends the process or some ACL value read from the page at address zero.  *)

\* apk_db_dir_get_mode: mode | S_IWUSR | S_IXUSR in usermode.
apk_db_dir_get_mode(usermode, mode) ==
    IF usermode
    THEN mode + (1 - ((mode \div 128) % 2)) * 128 + (1 - ((mode \div 64) % 2)) * 64
    ELSE mode

\* The order in which apk_hash_foreach visits the Dirs of S.
RECURSIVE hash_foreach_order(_)
hash_foreach_order(S) ==
    IF S = {} THEN <<>>
    ELSE Result({ <<x>> \o hash_foreach_order(S \ {x}) : x \in {CHOOSE y \in S : TRUE} })

\* The call of apk_fsdir_update_perms for dir with acl, and what follows it.
update_permissions_call(c, dir, acl) ==
    IF dir.name \notin c.fails
    THEN [c EXCEPT !.db.dirs[dir].modified = TRUE,
                   !.db.dirs[dir].permissions_stale = FALSE,
                   !.calls = @ \cup {[dir |-> dir.name,
                                      mode |-> apk_db_dir_get_mode(c.usermode, acl.mode),
                                      uid |-> acl.uid, gid |-> acl.gid]}]
    ELSE [c EXCEPT !.errors = @ + 1,
                   !.calls = @ \cup {[dir |-> dir.name,
                                      mode |-> apk_db_dir_get_mode(c.usermode, acl.mode),
                                      uid |-> acl.uid, gid |-> acl.gid]}]

\* update_permissions, the callback of apk_hash_foreach.
update_permissions(c, dir) ==
    IF c.db.dirs[dir].refs = 0 THEN c
    ELSE IF ~c.db.dirs[dir].permissions_stale THEN c
    ELSE IF c.db.dirs[dir].owner = 0
    THEN IF c.ub.killed THEN [c EXCEPT !.null = TRUE]
         ELSE update_permissions_call(c, dir, c.ub.acl)
    ELSE update_permissions_call(c, dir, c.db.diris[c.db.dirs[dir].owner].acl)

\* apk_hash_foreach(&db->installed.dirs, update_permissions, &ctx); the
\* process that got the signal visits nothing more.
RECURSIVE update_permissions_foreach(_, _)
update_permissions_foreach(c, todo) ==
    IF todo = <<>> \/ c.null THEN c
    ELSE update_permissions_foreach(update_permissions(c, Head(todo)), Tail(todo))

\* The loop over the DirInstances of one package.
RECURSIVE update_owner_diris(_, _)
update_owner_diris(db, todo) ==
    IF todo = <<>> THEN db
    ELSE update_owner_diris(apk_db_dir_apply_diri_permissions(db, Head(todo)), Tail(todo))

\* The loop over db->installed.packages, which pkgs lists in its order.
RECURSIVE update_owner_pkgs(_, _)
update_owner_pkgs(db, pkgs) ==
    IF pkgs = <<>> THEN db
    ELSE update_owner_pkgs(update_owner_diris(db, db.ipkg[Head(pkgs)].owned_dirs), Tail(pkgs))

\* The first half of apk_db_update_directory_permissions.
update_dirowner(db, pkgs) ==
    IF db.dirowner_stale
    THEN [update_owner_pkgs(db, pkgs) EXCEPT !.dirowner_stale = FALSE]
    ELSE db

\* The second half: c.db is the database after the first half.
update_dirperms(c) ==
    IF c.db.dirperms_stale
    THEN Result({ IF r.null THEN r ELSE [r EXCEPT !.db.dirperms_stale = FALSE]
                  : r \in { IF APK_SIMULATE \notin c.db.flags
                            THEN update_permissions_foreach(
                                   c, hash_foreach_order(DOMAIN c.db.dirs))
                            ELSE c } })
    ELSE c

\* apk_db_update_directory_permissions: [db, mid, errors, calls, null]; mid
\* is the database between the two halves; the function returns errors
\* unless null.
apk_db_update_directory_permissions(db, pkgs, fails, usermode, ub) ==
    Result({ update_dirperms([db |-> mid, mid |-> mid, errors |-> 0, calls |-> {},
                              null |-> FALSE, fails |-> fails,
                              usermode |-> usermode, ub |-> ub])
             : mid \in {update_dirowner(db, pkgs)} })

\* B owns the directory e/x and nothing else.
TextBx == << Line("P", "B"), Line("F", <<"e", "/", "x">>), Line("", <<>>) >>

ACL_0555 == Acl(365, 0, 0, 0)

PermEntries ==
    { DirEntry(<<"e">>, ACL_OTHER, "ENOENT"),
      DirEntry(<<"e", "/", "x">>, ACL_0555, "OK") }

PermDirNames == { <<"e">>, <<"e", "/", "x">> }

\* The orders db->installed.packages can have.
InstalledOrders(db) ==
    {s \in UNION {[1..n -> Pkgs] : n \in 0..Cardinality(Pkgs)} :
        /\ Range(s) = {p \in Pkgs : db.ipkg[p].installed}
        /\ Len(s) = Cardinality(Range(s))}

\* The outcomes of the NULL dereference: SIGSEGV, or the value acl.
UbOutcomes == {[killed |-> k, acl |-> ACL_OTHER] : k \in BOOLEAN}

InitPerm ==
    /\ \E f \in {{}, {APK_SIMULATE}} :
          dbs = apk_db_open(Root(f, ReplacesYN, <<>>, TextBx, 1))
    /\ held = [x \in {} |-> 0]
    /\ ctx = IdleCtx(0)
    /\ hist = [op |-> "open"]

\* The commit code calls apk_db_update_directory_permissions.
UpdatePermissions(pkgs, fails, usermode, ub) ==
    /\ ctx.pc = "idle"
    /\ \E res \in {apk_db_update_directory_permissions(Fresh(dbs), pkgs, fails,
                                                       usermode, ub)} :
          /\ dbs' = res.db
          /\ ctx' = IF res.null THEN [pc |-> "killed", ntx |-> ctx.ntx] ELSE ctx
          /\ hist' = [op |-> "update_permissions", mid |-> res.mid,
                      calls |-> res.calls, errors |-> res.errors, null |-> res.null,
                      usermode |-> usermode]
    /\ UNCHANGED held

NextPerm ==
    \/ \E n \in {"A"} : InstallBegin(NULLPKG, n)
    \/ \E ae \in PermEntries : InstallFile(ae)
    \/ \E xr \in {-1} : InstallFail(xr)
    \/ InstallEnd
    \/ \E o \in {"A", "B"} : Remove(o)
    \/ \E pkgs \in InstalledOrders(dbs), fails \in SUBSET PermDirNames,
          usermode \in BOOLEAN, ub \in UbOutcomes :
          UpdatePermissions(pkgs, fails, usermode, ub)

SpecPerm == InitPerm /\ [][NextPerm]_vars

---------------------------------------------------------------------------
(* The choice of the owner of a directory.  SpecApply installs and removes *)
(* packages that share the directories e and e/x, and applies             *)
(* apk_db_dir_apply_diri_permissions to the DirInstances of the databases  *)
(* that result, as the reader of the installed database, the installer and *)
(* apk_db_update_directory_permissions do.                                 *)

ReplacesNY == Replaces(APK_PKG_REPLACES_NO, APK_PKG_REPLACES_YES)
ReplacesYY == Replaces(APK_PKG_REPLACES_YES, APK_PKG_REPLACES_YES)

ApplyEntries ==
    { DirEntry(<<"e">>, ACL_OTHER, "ENOENT"),
      DirEntry(<<"e", "/", "x">>, ACL_0555, "OK"),
      DirEntry(<<"e", "/", "x">>, ACL_0555, "MODIFIED"),
      DirEntry(<<"e", "/", "x">>, apk_default_acl_dir, "OK") }

InitApply ==
    /\ \E rep \in {ReplacesYN, ReplacesNY, ReplacesYY} :
          dbs = apk_db_open(Root({}, rep, <<>>, TextBx, 1))
    /\ held = [x \in {} |-> 0]
    /\ ctx = IdleCtx(0)
    /\ hist = [op |-> "open"]

\* apk_db_dir_apply_diri_permissions(db, diri).
ApplyDiri(diri) ==
    /\ ctx.pc = "idle"
    /\ dbs' = apk_db_dir_apply_diri_permissions(Fresh(dbs), diri)
    /\ hist' = [op |-> "apply", diri |-> diri, pre |-> Fresh(dbs)]
    /\ UNCHANGED <<held, ctx>>

NextApply ==
    \/ \E n \in {"A"} : InstallBegin(NULLPKG, n)
    \/ \E ae \in ApplyEntries : InstallFile(ae)
    \/ \E xr \in {-1} : InstallFail(xr)
    \/ InstallEnd
    \/ \E o \in {"A", "B"} : Remove(o)
    \/ \E diri \in DOMAIN dbs.diris : ApplyDiri(diri)

SpecApply == InitApply /\ [][NextApply]_vars

---------------------------------------------------------------------------
(* References to directories, with and without APK_SIMULATE.  SpecDir has  *)
(* outside callers that take and give back references to e and e/x, with  *)
(* either mode, around installs that create e.                              *)

DirRawNames == { <<"e">>, <<"e", "/", "x">> }

InitDir ==
    /\ \E f \in {{}, {APK_SIMULATE}}, text \in {<<>>, TextBx} :
          dbs = apk_db_open(Root(f, ReplacesYN, <<>>, text, 1))
    /\ held = [x \in {} |-> 0]
    /\ ctx = IdleCtx(0)
    /\ hist = [op |-> "open"]

NextDir ==
    \/ \E raw \in DirRawNames : DirGet(raw)
    \/ \E dir \in DOMAIN held, mode \in {APK_DIR_FREE, APK_DIR_REMOVE} : DirUnref(dir, mode)
    \/ \E n \in {"A"} : InstallBegin(NULLPKG, n)
    \/ \E ae \in PermEntries : InstallFile(ae)
    \/ \E xr \in {-1} : InstallFail(xr)
    \/ InstallEnd
    \/ \E o \in {"A", "B"} : Remove(o)

SpecDir == InitDir /\ [][NextDir]_vars

---------------------------------------------------------------------------
(* Closing the database.  SpecClose installs, reinstalls and removes       *)
(* packages, lets outside callers take and give back references, and closes *)
(* the database; nothing happens to a closed database.                     *)

\* The loop of apk_db_close over the DirInstances of one package.
RECURSIVE close_diris(_, _)
close_diris(db, todo) ==
    IF todo = <<>> THEN db
    ELSE close_diris(apk_db_diri_free(db, Head(todo), APK_DIR_FREE), Tail(todo))

\* The loop of apk_db_close over db->installed.packages, which pkgs lists
\* in its order.
RECURSIVE close_pkgs(_, _)
close_pkgs(db, pkgs) ==
    IF pkgs = <<>> THEN db
    ELSE close_pkgs(close_diris(db, db.ipkg[Head(pkgs)].owned_dirs), Tail(pkgs))

\* apk_db_close, as far as the directory tree goes.
apk_db_close(db, pkgs) == close_pkgs(db, pkgs)

Close(pkgs) ==
    /\ ctx.pc = "idle"
    /\ dbs' = apk_db_close(Fresh(dbs), pkgs)
    /\ ctx' = [pc |-> "closed", ntx |-> ctx.ntx]
    /\ hist' = [op |-> "close", pre |-> Fresh(dbs)]
    /\ UNCHANGED held

NextClose ==
    \/ \E raw \in RawNames : DirGet(raw)
    \/ \E dir \in DOMAIN held, mode \in {APK_DIR_FREE, APK_DIR_REMOVE} : DirUnref(dir, mode)
    \/ \E o \in {"A", NULLPKG} : InstallBegin(o, "A")
    \/ \E ae \in PrioEntries : InstallFile(ae)
    \/ \E xr \in {-1} : InstallFail(xr)
    \/ InstallEnd
    \/ \E o \in {"A"} : Remove(o)
    \/ \E pkgs \in InstalledOrders(dbs) : Close(pkgs)

SpecClose == InitLink /\ [][NextClose]_vars

---------------------------------------------------------------------------
(* Protected paths.  SpecProt opens the database with the default          *)
(* protected paths or with a configuration of its own and has outside      *)
(* callers take and give back directories inside and outside of e (etc).   *)

\* ac->protected_paths: the null blob (the defaults are used), or lines.
ProtConfigs ==
    { <<>>,
      << <<"+", "e">>, <<"!", "e">> >>,
      << <<"!", "e", "/", "i">>, <<"e", "/", "i">>, <<"#", "x">>, <<"-", "/", "x", "/">>,
         <<"@", "e", "/", "i", "/", "x">> >> }

ProtRawNames ==
    { <<"e">>, <<"e", "/", "i">>, <<"e", "/", "a">>, <<"e", "/", "x">>,
      <<"e", "/", "i", "/", "x">>, <<"e", "/", "x", "/", "i">>,
      <<"x">>, <<"x", "/", "e">>, <<"i">> }

\* apk_db_open of an empty root, lines 1727-1735 run with the configuration
\* conf.
InitProt ==
    /\ \E conf \in ProtConfigs :
          dbs = [apk_db_open(Root({}, ReplacesYN, <<>>, <<>>, 1))
                   EXCEPT !.protected_paths =
                             IF conf = <<>> THEN protected_paths
                             ELSE add_protected_paths(<<>>, conf)]
    /\ held = [x \in {} |-> 0]
    /\ ctx = IdleCtx(0)
    /\ hist = [op |-> "open"]

NextProt ==
    \/ \E raw \in ProtRawNames : DirGet(raw)
    \/ \E dir \in DOMAIN held, mode \in {APK_DIR_FREE, APK_DIR_REMOVE} : DirUnref(dir, mode)

SpecProt == InitProt /\ [][NextProt]_vars

---------------------------------------------------------------------------
(* The reverse dependencies of the names.  In SpecRdep dbs is the name and  *)
(* package registry during and after apk_db_open: dbs.names maps a name to  *)
(* its struct apk_name, dbs.pkgs is the sequence of the packages added,     *)
(* dbs.open_complete is db->open_complete.  A dependency is a name and its  *)
(* conflict bit.                                                              *)

\* ARRAY_SIZE(touched) of apk_db_name_rdepends, 128 in the source.
MaxTouched == 2
MaxRdepPkgs == 2

RdepNames == {"a", "b", "c", "v"}

Dep(n) == [name |-> n, conflict |-> FALSE]
Conflict(n) == [name |-> n, conflict |-> TRUE]
apk_dep_conflict(d) == d.conflict

RdepDepends ==
    { <<>>, <<Dep("b")>>, <<Dep("b"), Dep("c"), Dep("b")>>, <<Conflict("c"), Dep("a")>>,
      <<Dep("a"), Dep("b"), Dep("c"), Dep("v")>> }
RdepInstallIf ==
    { <<>>, <<Dep("c")>>, <<Dep("v"), Dep("c"), Dep("b"), Dep("a"), Dep("c")>> }

RdepPkgs ==
    [name : {"a", "b"}, provides : {<<>>, <<"v">>},
     depends : RdepDepends, install_if : RdepInstallIf]

\* add_name_to_array: append name unless the array has it.
add_name_to_array(name, a) ==
    IF \E i \in 1..Len(a) : a[i] = name THEN a ELSE Append(a, name)

\* The two loops of apk_db_pkg_rdepends over pkg->depends and
\* pkg->install_if, from their element i on.
RECURSIVE pkg_rdepends_depends(_, _, _)
pkg_rdepends_depends(names, pkg, i) ==
    IF i > Len(pkg.depends) THEN names
    ELSE pkg_rdepends_depends(
            [names EXCEPT
               ![pkg.depends[i].name].is_dependency =
                   @ \/ ~apk_dep_conflict(pkg.depends[i]),
               ![pkg.depends[i].name].rdepends = add_name_to_array(pkg.name, @)],
            pkg, i + 1)

RECURSIVE pkg_rdepends_install_if(_, _, _)
pkg_rdepends_install_if(names, pkg, i) ==
    IF i > Len(pkg.install_if) THEN names
    ELSE pkg_rdepends_install_if(
            [names EXCEPT
               ![pkg.install_if[i].name].rinstall_if = add_name_to_array(pkg.name, @)],
            pkg, i + 1)

apk_db_pkg_rdepends(names, pkg) ==
    pkg_rdepends_install_if(pkg_rdepends_depends(names, pkg, 1), pkg, 1)

\* The registration of the providers in apk_db_pkg_add: the package for its
\* own name, then for each name it provides.
RECURSIVE rdep_add_provides(_, _, _, _)
rdep_add_provides(names, id, provides, i) ==
    IF i > Len(provides) THEN names
    ELSE rdep_add_provides([names EXCEPT ![provides[i]].providers = Append(@, id)],
                           id, provides, i + 1)

\* apk_db_pkg_add of a package whose digest the registry does not have.
rdep_pkg_add(db, pkg) ==
    LET id == Len(db.pkgs) + 1
        names == rdep_add_provides(
                    [db.names EXCEPT ![pkg.name].providers = Append(@, id)],
                    id, pkg.provides, 1)
    IN [db EXCEPT !.pkgs = Append(@, pkg),
                  !.names = IF db.open_complete
                            THEN apk_db_pkg_rdepends(names, pkg) ELSE names]

\* apk_db_name_rdepends keeps c: the names, the touched array, num_touched
\* and num_virtual.  name_rdepends_touch is the body run for one dependency
\* on rname whose bit (1 for depends, 2 for install_if) is not yet set.
name_rdepends_touch(c, name, rname, bit) ==
    LET c1 == IF c.names[rname].state_int = 0
              THEN [c EXCEPT !.touched = IF c.num_touched < MaxTouched
                                         THEN Append(@, rname) ELSE @,
                             !.num_touched = @ + 1]
              ELSE c
    IN [c1 EXCEPT !.names[rname].state_int = @ + bit,
                  !.names[rname].rdepends = IF bit = 1 THEN Append(@, name) ELSE @,
                  !.names[rname].rinstall_if = IF bit = 2 THEN Append(@, name) ELSE @]

RECURSIVE name_rdepends_depends(_, _, _, _)
name_rdepends_depends(c, name, deps, i) ==
    IF i > Len(deps) THEN c
    ELSE LET rname == deps[i].name
             c1 == [c EXCEPT !.names[rname].is_dependency =
                                 @ \/ ~apk_dep_conflict(deps[i])]
         IN name_rdepends_depends(
               IF c1.names[rname].state_int % 2 = 0
               THEN name_rdepends_touch(c1, name, rname, 1) ELSE c1,
               name, deps, i + 1)

RECURSIVE name_rdepends_install_if(_, _, _, _)
name_rdepends_install_if(c, name, deps, i) ==
    IF i > Len(deps) THEN c
    ELSE LET rname == deps[i].name
         IN name_rdepends_install_if(
               IF (c.names[rname].state_int \div 2) % 2 = 0
               THEN name_rdepends_touch(c, name, rname, 2) ELSE c,
               name, deps, i + 1)

\* foreach_array_item(p, name->providers), from provider i on.
RECURSIVE name_rdepends_providers(_, _, _, _)
name_rdepends_providers(c, pkgs, name, i) ==
    IF i > Len(c.names[name].providers) THEN c
    ELSE LET pkg == pkgs[c.names[name].providers[i]]
             c1 == [c EXCEPT !.num_virtual = @ + (IF pkg.name # name THEN 1 ELSE 0)]
         IN name_rdepends_providers(
               name_rdepends_install_if(
                  name_rdepends_depends(c1, name, pkg.depends, 1),
                  name, pkg.install_if, 1),
               pkgs, name, i + 1)

name_rdepends_priority(num_virtual, num) ==
    IF num_virtual = 0 THEN 0 ELSE IF num_virtual # num THEN 1 ELSE 2

\* The names the walk over the providers of name sets back to 0.
name_rdepends_walked(names, pkgs, name) ==
    UNION { { pkgs[names[name].providers[i]].depends[j].name :
                 j \in 1..Len(pkgs[names[name].providers[i]].depends) }
            \cup { pkgs[names[name].providers[i]].install_if[j].name :
                 j \in 1..Len(pkgs[names[name].providers[i]].install_if) } :
            i \in 1..Len(names[name].providers) }

\* A variant of name_rdepends_reset that always goes by the touched array.
name_rdepends_reset_touched(c, pkgs, name) ==
    [n \in DOMAIN c.names |->
        IF n \in Range(c.touched) THEN [c.names[n] EXCEPT !.state_int = 0]
        ELSE c.names[n]]

\* The end of apk_db_name_rdepends: the scratch state goes back to 0, by the
\* walk over the providers when the touched array overflowed.
name_rdepends_reset(c, pkgs, name) ==
    LET zero == IF c.num_touched > MaxTouched
                THEN name_rdepends_walked(c.names, pkgs, name)
                ELSE Range(c.touched)
    IN [n \in DOMAIN c.names |->
           IF n \in zero THEN [c.names[n] EXCEPT !.state_int = 0] ELSE c.names[n]]

apk_db_name_rdepends(names, pkgs, name) ==
    LET c == name_rdepends_providers(
                [names |-> names, touched |-> <<>>, num_touched |-> 0, num_virtual |-> 0],
                pkgs, name, 1)
        c1 == [c EXCEPT !.names[name].priority =
                  name_rdepends_priority(c.num_virtual, Len(names[name].providers))]
    IN name_rdepends_reset(c1, pkgs, name)

\* apk_hash_foreach(&db->available.names, apk_db_name_rdepends, db)
RECURSIVE names_foreach_rdepends(_, _, _)
names_foreach_rdepends(names, pkgs, order) ==
    IF order = <<>> THEN names
    ELSE names_foreach_rdepends(apk_db_name_rdepends(names, pkgs, Head(order)),
                                pkgs, Tail(order))

InitRdep ==
    /\ dbs = [names |-> [n \in RdepNames |->
                           [providers |-> <<>>, rdepends |-> <<>>, rinstall_if |-> <<>>,
                            state_int |-> 0, is_dependency |-> FALSE, priority |-> 0]],
              pkgs |-> <<>>, open_complete |-> FALSE]
    /\ held = [x \in {} |-> 0]
    /\ ctx = IdleCtx(0)
    /\ hist = [op |-> "init"]

\* apk_db_pkg_add of a new package: while the database is opened (an index
\* or the installed database is read), or after that.
RdepPkgAdd(pkg) ==
    /\ Len(dbs.pkgs) < MaxRdepPkgs
    /\ dbs' = rdep_pkg_add(dbs, pkg)
    /\ hist' = [op |-> "pkg_add", late |-> dbs.open_complete]
    /\ UNCHANGED <<held, ctx>>

\* The end of apk_db_open: the recomputation over all names, then
\* open_complete.
RdepOpenComplete ==
    /\ ~dbs.open_complete
    /\ dbs' = [dbs EXCEPT
                 !.names = names_foreach_rdepends(@, dbs.pkgs,
                                                  hash_foreach_order(RdepNames)),
                 !.open_complete = TRUE]
    /\ hist' = [op |-> "rdepends"]
    /\ UNCHANGED <<held, ctx>>

NextRdep ==
    \/ \E pkg \in RdepPkgs : RdepPkgAdd(pkg)
    \/ RdepOpenComplete

SpecRdep == InitRdep /\ [][NextRdep]_vars

---------------------------------------------------------------------------
(* The file lines of the installed database.  SpecFdbFile reads texts in    *)
(* which the lines that name a directory, a file, a checksum and a file ACL *)
(* come in any order after the record of a first package.                   *)

MaxFileLines == 3

FdbFileHeads ==
    { << Line("P", "A"), Line("F", <<"e">>), Line("R", <<"f">>) >>,
      << Line("P", "A"), Line("F", <<"e">>), Line("R", <<"f">>),
         Line("Z", <<"Q1", 1>>) >> }

FdbFileLines ==
    { Line("", <<>>), Line("P", "B"), Line("F", <<"e", "/", "x">>),
      Line("R", <<"g">>), Line("Z", <<"hex", 2>>) }
    \cup Range(FdbAclLines("a", "other"))

\* The texts read: a record has one P: line, its first.
FdbFileTexts ==
    { text \in { head \o tail :
                   head \in FdbFileHeads,
                   tail \in UNION { [1..n -> FdbFileLines] : n \in 0..MaxFileLines } } :
        \A i \in 2..Len(text) : text[i].f = "P" => text[i - 1].f = "" }

InitFdbFile ==
    /\ dbs = RawDb({})
    /\ held = [x \in {} |-> 0]
    /\ ctx = IdleCtx(0)
    /\ hist = [op |-> "init"]

\* apk_db_fdb_read of the installed database text.
FdbReadFile(text) ==
    /\ hist.op = "init"
    /\ \E res \in {apk_db_fdb_read(dbs, text)} :
          /\ dbs' = res.db
          /\ hist' = [op |-> "fdb_read_file", text |-> text, r |-> res.r]
    /\ UNCHANGED <<held, ctx>>

NextFdbFile == \E text \in FdbFileTexts : FdbReadFile(text)

SpecFdbFile == InitFdbFile /\ [][NextFdbFile]_vars

---------------------------------------------------------------------------
(* The owners of the directories.  SpecOwner opens roots with and without   *)
(* an overlay, installs, reinstalls and removes packages and lets the       *)
(* commit code update the directory permissions.                            *)

\* What apk_pkg_replaces_dir answers for a package against the overlay
\* package is left open.
InitOwner ==
    /\ \E ov \in {<<>>, OverlayE}, text \in {TextA, TextBx},
          v \in {APK_PKG_REPLACES_YES, APK_PKG_REPLACES_NO, APK_PKG_REPLACES_CONFLICT} :
          dbs = [apk_db_open(Root({}, ReplacesYN, ov, text, 1))
                   EXCEPT !.replaces = @ @@ [x \in {<<"A", "O">>, <<"B", "O">>} |-> v]]
    /\ held = [x \in {} |-> 0]
    /\ ctx = IdleCtx(0)
    /\ hist = [op |-> "open"]

NextOwner ==
    \/ \E o \in {"A", NULLPKG} : InstallBegin(o, "A")
    \/ \E ae \in PermEntries : InstallFile(ae)
    \/ \E xr \in {-1} : InstallFail(xr)
    \/ InstallEnd
    \/ \E o \in {"A", "B"} : Remove(o)
    \/ \E pkgs \in InstalledOrders(dbs), ub \in UbOutcomes :
          UpdatePermissions(pkgs, {}, FALSE, ub)

SpecOwner == InitOwner /\ [][NextOwner]_vars

---------------------------------------------------------------------------
(* The sorted walk over the packages.  In SpecSorted dbs is the registry:   *)
(* dbs.pkgs maps a package to its name, version, provides and seen flag,    *)
(* dbs.providers a name to its provider array.  A filter is a sequence of   *)
(* patterns, "*" the one with a wildcard.  The callback returns nonzero at  *)
(* its invocation number stop for a package (0: never).                     *)

\* ARRAY_SIZE(results) of __apk_db_foreach_sorted_package, 128 in the source.
MaxResults == 2
MaxSortedCalls == 2

SortedNames == <<"a", "b", "c", "v">>

SortedPkgs ==
    << [name |-> "a", version |-> 2, provides |-> <<>>, seen |-> FALSE],
       [name |-> "c", version |-> 1, provides |-> <<"a">>, seen |-> FALSE],
       [name |-> "a", version |-> 1, provides |-> <<>>, seen |-> FALSE],
       [name |-> "b", version |-> 1, provides |-> <<"v">>, seen |-> FALSE] >>

\* name->providers as apk_db_pkg_add filled them, in the order of SortedPkgs.
SortedProviders ==
    [n \in Range(SortedNames) |->
       SelectSeq(<<1, 2, 3, 4>>,
                 LAMBDA p : SortedPkgs[p].name = n \/ n \in Range(SortedPkgs[p].provides))]

SortedFilters ==
    UNION { [1..n -> {"a", "b", "v", "x", "*"}] : n \in 0..2 }

NameRank(n) == CHOOSE i \in 1..Len(SortedNames) : SortedNames[i] = n

\* apk_pkg_cmp_display(a, b) < 0: by name, then by version.
pkg_cmp_display_less(db, a, b) ==
    \/ NameRank(db.pkgs[a].name) < NameRank(db.pkgs[b].name)
    \/ /\ db.pkgs[a].name = db.pkgs[b].name
       /\ db.pkgs[a].version < db.pkgs[b].version

\* qsort(..., cmp_package) and apk_name_sorted_providers
qsort_packages(db, l) == SortSeq(l, LAMBDA a, b : pkg_cmp_display_less(db, a, b))

\* apk_string_match: fnmatch of each pattern of the filter against str.
apk_string_match(str, filter) ==
    \E i \in 1..Len(filter) : filter[i] = "*" \/ fnmatch(filter[i], str) = 0

\* apk_name_match; the empty filter stands for the NULL filter, which
\* __apk_db_foreach_sorted_package puts in its place.
apk_name_match(name, filter) ==
    IF filter = <<>> THEN TRUE ELSE apk_string_match(name, filter)

apk_pkg_match(pkg, filter, provides) ==
    \/ apk_name_match(pkg.name, filter)
    \/ /\ provides
       /\ \E i \in 1..Len(pkg.provides) : apk_string_match(pkg.provides[i], filter)

\* foreach_array_item(p, name->providers) of the collecting loop, from
\* provider j on; c.walk_all is set where the code goes to walk_all.
RECURSIVE sorted_collect_providers(_, _, _, _)
sorted_collect_providers(c, name, j, provides) ==
    IF j > Len(c.db.providers[name]) THEN c
    ELSE LET p == c.db.providers[name][j]
         IN IF (~provides /\ c.db.pkgs[p].name # name) \/ c.db.pkgs[p].seen
            THEN sorted_collect_providers(c, name, j + 1, provides)
            ELSE IF Len(c.results) >= MaxResults
            THEN [c EXCEPT !.db.pkgs[p].seen = TRUE, !.walk_all = TRUE]
            ELSE sorted_collect_providers(
                    [c EXCEPT !.db.pkgs[p].seen = TRUE, !.results = Append(@, p)],
                    name, j + 1, provides)

\* foreach_array_item(pmatch, filter), from pattern i on.  A pattern that
\* names nothing is reported to the callback with a NULL package.
RECURSIVE sorted_collect(_, _, _, _)
sorted_collect(c, filter, i, provides) ==
    IF i > Len(filter) \/ c.walk_all THEN c
    ELSE IF filter[i] = "*" THEN [c EXCEPT !.walk_all = TRUE]
    ELSE IF filter[i] \notin DOMAIN c.db.providers
    THEN sorted_collect([c EXCEPT !.calls = Append(@, 0)], filter, i + 1, provides)
    ELSE sorted_collect(sorted_collect_providers(c, filter[i], 1, provides),
                        filter, i + 1, provides)

\* for (i = 0; i < num_res; i++) results[i]->seen = 0
sorted_unsee(c) ==
    [c EXCEPT !.db.pkgs = [p \in DOMAIN @ |->
                              IF p \in Range(c.results) THEN [@[p] EXCEPT !.seen = FALSE]
                              ELSE @[p]]]

\* The loops that call the callback for the packages of l that match, until
\* it returns nonzero.
RECURSIVE sorted_calls(_, _, _, _, _)
sorted_calls(c, l, filter, provides, stop) ==
    IF l = <<>> \/ c.r # 0 THEN c
    ELSE IF ~apk_pkg_match(c.db.pkgs[Head(l)], filter, provides)
    THEN sorted_calls(c, Tail(l), filter, provides, stop)
    ELSE sorted_calls(
            [c EXCEPT !.calls = Append(@, Head(l)),
                      !.r = IF Cardinality({k \in 1..Len(c.calls) : c.calls[k] # 0}) + 1 = stop
                            THEN 1 ELSE 0],
            Tail(l), filter, provides, stop)

\* walk_all: the packages in the order of the sorted names, each name's
\* providers sorted, a package under its own name.
RECURSIVE sorted_walk_list(_, _)
sorted_walk_list(db, i) ==
    IF i > Len(SortedNames) THEN <<>>
    ELSE SelectSeq(qsort_packages(db, db.providers[SortedNames[i]]),
                   LAMBDA p : db.pkgs[p].name = SortedNames[i])
         \o sorted_walk_list(db, i + 1)

\* __apk_db_foreach_sorted_package: [db, calls, r], calls the packages the
\* callback was invoked for, 0 for a NULL package.
apk_db_foreach_sorted_package(db, filter, provides, stop) ==
    LET c0 == [db |-> db, results |-> <<>>, walk_all |-> FALSE, calls |-> <<>>, r |-> 0]
        c1 == IF Len(filter) = 0 THEN [c0 EXCEPT !.walk_all = TRUE]
              ELSE sorted_collect(c0, filter, 1, provides)
        c2 == sorted_unsee(c1)
    IN IF c1.walk_all
       THEN sorted_calls(c2, sorted_walk_list(c2.db, 1), filter, provides, stop)
       ELSE sorted_calls(c2, qsort_packages(c2.db, c2.results), filter, provides, stop)

InitSorted ==
    /\ dbs = [pkgs |-> SortedPkgs, providers |-> SortedProviders]
    /\ held = [x \in {} |-> 0]
    /\ ctx = IdleCtx(0)
    /\ hist = [op |-> "init"]

ForeachSortedPackage(filter, provides, stop) ==
    /\ ctx.ntx < MaxSortedCalls
    /\ \E res \in {apk_db_foreach_sorted_package(dbs, filter, provides, stop)} :
          /\ dbs' = res.db
          /\ hist' = [op |-> "foreach_sorted", filter |-> filter, provides |-> provides,
                      calls |-> res.calls, r |-> res.r, walk_all |-> res.walk_all]
    /\ ctx' = IdleCtx(ctx.ntx + 1)
    /\ UNCHANGED held

NextSorted ==
    \E filter \in SortedFilters, provides \in BOOLEAN, stop \in 0..1 :
       ForeachSortedPackage(filter, provides, stop)

SpecSorted == InitSorted /\ [][NextSorted]_vars

---------------------------------------------------------------------------
(* The compression header of an ADB stream (adb_comp.c).  In SpecAdb dbs    *)
(* is the stream: dbs.file the bytes in it, dbs.comp the compression the    *)
(* writer asked for.  A writer opens the stream with adb_compress and       *)
(* writes the container through what it got back; a reader hands the bytes  *)
(* of a stream, written so or arbitrary, to adb_decompress.                 *)

MaxInput == 4

ADB_COMP_NONE == "none"
ADB_COMP_DEFLATE == "deflate"
ADB_COMP_ZSTD == "zstd"
ADB_COMP_ZSTD_FAST == "zstd-fast"
ADB_COMP_ZSTD_SLOW == "zstd-slow"
AdbComps == {ADB_COMP_NONE, ADB_COMP_DEFLATE, ADB_COMP_ZSTD, ADB_COMP_ZSTD_FAST,
             ADB_COMP_ZSTD_SLOW}

\* The value of *compression when adb_decompress has not assigned it.
COMP_UNSET == "unset"

APKE_ADB_HEADER == "APKE_ADB_HEADER"
APKE_ADB_COMPRESSION == "APKE_ADB_COMPRESSION"
\* The error of apk_istream_peek on a stream that ends before 4 bytes.
PEEK_ERROR == "peek"

AdbBytes == {"A", "D", "B", ".", "d", "z", "Z", "s", "x"}
AdbInputs == UNION { [1..n -> AdbBytes] : n \in 0..MaxInput }

\* The stream adb_compress returns after it wrote header: what is written
\* through layer goes to the file deflated, as a zstd frame, or as it is.
AdbOstream(header, layer) == [err |-> "", header |-> header, layer |-> layer]
AdbOstreamErr == [err |-> APKE_ADB_COMPRESSION, header |-> <<>>, layer |-> "closed"]

\* A variant of adb_compress that writes the header of ZSTD_FAST for ZSTD.
adb_compress_fast(compression, write_ok) ==
    CASE compression = ADB_COMP_NONE -> AdbOstream(<<>>, "raw")
      [] ~write_ok -> AdbOstreamErr
      [] compression = ADB_COMP_DEFLATE -> AdbOstream(<<"A", "D", "B", "d">>, "deflate")
      [] compression = ADB_COMP_ZSTD -> AdbOstream(<<"A", "D", "B", "Z">>, "zstd")
      [] compression = ADB_COMP_ZSTD_FAST -> AdbOstream(<<"A", "D", "B", "Z">>, "zstd")
      [] compression = ADB_COMP_ZSTD_SLOW -> AdbOstream(<<"A", "D", "B", "s">>, "zstd")
      [] OTHER -> AdbOstreamErr

\* adb_compress(os, compression); write_ok tells whether apk_ostream_write
\* of the header succeeds.
adb_compress(compression, write_ok) ==
    CASE compression = ADB_COMP_NONE -> AdbOstream(<<>>, "raw")
      [] ~write_ok -> AdbOstreamErr
      [] compression = ADB_COMP_DEFLATE -> AdbOstream(<<"A", "D", "B", "d">>, "deflate")
      [] compression = ADB_COMP_ZSTD -> AdbOstream(<<"A", "D", "B", "z">>, "zstd")
      [] compression = ADB_COMP_ZSTD_FAST -> AdbOstream(<<"A", "D", "B", "Z">>, "zstd")
      [] compression = ADB_COMP_ZSTD_SLOW -> AdbOstream(<<"A", "D", "B", "s">>, "zstd")
      [] OTHER -> AdbOstreamErr

\* The result of adb_decompress: the error, whether the input stream was
\* closed, the bytes taken from it, the layer put on it, and *compression.
AdbIstream(consumed, layer, c) ==
    [err |-> "", closed |-> FALSE, consumed |-> consumed, layer |-> layer,
     compression |-> c]
AdbIstreamErr(e) ==
    [err |-> e, closed |-> TRUE, consumed |-> 0, layer |-> "closed",
     compression |-> COMP_UNSET]

\* adb_decompress(is, &compression) on a stream that holds the bytes buf.
adb_decompress(buf) ==
    IF Len(buf) < 4 THEN AdbIstreamErr(PEEK_ERROR)
    ELSE IF SubSeq(buf, 1, 3) # <<"A", "D", "B">> THEN AdbIstreamErr(APKE_ADB_HEADER)
    ELSE CASE buf[4] = "." -> AdbIstream(0, "raw", ADB_COMP_NONE)
           [] buf[4] = "d" -> AdbIstream(4, "deflate", ADB_COMP_DEFLATE)
           [] buf[4] = "z" -> AdbIstream(4, "zstd", ADB_COMP_ZSTD)
           [] buf[4] = "Z" -> AdbIstream(4, "zstd", ADB_COMP_ZSTD_FAST)
           [] buf[4] = "s" -> AdbIstream(4, "zstd", ADB_COMP_ZSTD_SLOW)
           [] OTHER -> AdbIstreamErr(APKE_ADB_COMPRESSION)

\* The container written through the stream of adb_compress: it begins
\* with "ADB."; behind a layer its bytes are in the file as the one opaque
\* byte "x".
AdbBody(layer) == IF layer = "raw" THEN <<"A", "D", "B", ".">> ELSE <<"x">>

InitAdb ==
    /\ dbs = [file |-> <<>>, comp |-> COMP_UNSET]
    /\ held = [x \in {} |-> 0]
    /\ ctx = IdleCtx(0)
    /\ hist = [op |-> "init"]

\* A writer: adb_compress, then the container through the stream it got.
AdbWrite(compression, write_ok) ==
    /\ hist.op = "init"
    /\ \E os \in {adb_compress(compression, write_ok)} :
          /\ dbs' = [file |-> IF os.err = "" THEN os.header \o AdbBody(os.layer) ELSE <<>>,
                     comp |-> compression]
          /\ hist' = [op |-> "adb_write", os |-> os]
    /\ UNCHANGED <<held, ctx>>

\* A reader of the stream just written.
AdbRead ==
    /\ hist.op = "adb_write"
    /\ hist.os.err = ""
    /\ hist' = [op |-> "adb_read", header |-> hist.os.header,
                is |-> adb_decompress(dbs.file)]
    /\ UNCHANGED <<dbs, held, ctx>>

\* A reader of a stream that holds the bytes buf.
AdbReadInput(buf) ==
    /\ hist.op = "init"
    /\ dbs' = [file |-> buf, comp |-> COMP_UNSET]
    /\ hist' = [op |-> "adb_input", is |-> adb_decompress(buf)]
    /\ UNCHANGED <<held, ctx>>

NextAdb ==
    \/ \E compression \in AdbComps, write_ok \in BOOLEAN : AdbWrite(compression, write_ok)
    \/ AdbRead
    \/ \E buf \in AdbInputs : AdbReadInput(buf)

SpecAdb == InitAdb /\ [][NextAdb]_vars

---------------------------------------------------------------------------
(* Properties *)

DirInstancesOn(db, d) == {i \in DOMAIN db.diris : db.diris[i].dir = d}
ChildrenOf(db, d) == {c \in DOMAIN db.dirs : db.dirs[c].parent = d}
HeldOn(d) == IF d \in DOMAIN held THEN held[d] ELSE 0

\* C1 as stated: the reference count of every Dir equals the number of
\* DirInstances that point to it.
C1_RefsEqualDiris ==
    \A d \in DOMAIN dbs.dirs :
       dbs.dirs[d].refs = Cardinality(DirInstancesOn(dbs, d))

\* C1 amended: the reference count of every Dir equals the number of
\* DirInstances that point to it, plus the number of live child Dirs whose
\* parent it is, plus the references outside callers of apk_db_dir_get hold.
C1_RefsAccounted ==
    \A d \in DOMAIN dbs.dirs :
       dbs.dirs[d].refs = Cardinality(DirInstancesOn(dbs, d))
                          + Cardinality(ChildrenOf(dbs, d))
                          + HeldOn(d)

\* C1 witness: a Dir with a DirInstance and an outside reference, below a
\* parent that it keeps alive, after a package has been installed.
C1_Witness ==
    /\ hist.op = "dir_get"
    /\ \E d \in DOMAIN dbs.dirs :
          /\ DirInstancesOn(dbs, d) # {}
          /\ HeldOn(d) > 0
          /\ dbs.dirs[d].parent # NULLDIR
          /\ ChildrenOf(dbs, dbs.dirs[d].parent) # {}

\* C2 as stated: apk_db_dir_get of a name with a trailing slash gives the
\* Dir that apk_db_dir_get of the name without it gives, and no two Dirs of
\* the directory index have the same canonical (slash-stripped) name.
C2_TrailingSlashSameDir ==
    /\ \A raw \in RawNames :
          apk_db_dir_get(dbs, raw).dir = apk_db_dir_get(dbs, StripSlash(raw)).dir
    /\ \A d1, d2 \in DOMAIN dbs.dirs : d1.name = d2.name => d1 = d2

\* The entry of the log is a regular file with a name the installer takes.
TakenFile(e) ==
    /\ e.ae.mode = "reg"
    /\ ~dot_name(e.ae.name)
    /\ ~malicious_name(e.ae.name)

\* The path of the entry belonged to another package when the transaction
\* began, and apk_pkg_replaces_file answers rep for that package and pkg.
OwnedByOther(db, old, pkg, ae, rep) ==
    /\ PathOf(ae.name) \in DOMAIN old
    /\ old[PathOf(ae.name)].owner # pkg
    /\ apk_pkg_replaces_file(db, old[PathOf(ae.name)].owner, pkg) = rep

\* The index holds exactly one File for the path, and pkg owns it.
OneFileOf(db, k, pkg) ==
    /\ Cardinality(FilesAt(db, k)) = 1
    /\ \A f \in FilesAt(db, k) : Owner(db, f) = pkg

\* C3 as stated: after apk_db_install_pkg has returned 0, every file entry
\* of the archive whose path passed the sanity check has exactly one File in
\* the index, owned by the package.
C3_EveryEntryIndexed ==
    (hist.op = "install" /\ hist.r = 0) =>
       \A e \in hist.log :
          TakenFile(e) => OneFileOf(dbs, PathOf(e.ae.name), hist.pkg)

\* C3 amended: after apk_db_install_pkg has returned 0, every file entry of
\* the archive whose path passed the sanity check, and that was not skipped
\* because another package owns the path and apk_pkg_replaces_file answered
\* NO, has exactly one File in the index, owned by the package.
C3_EveryKeptEntryIndexed ==
    (hist.op = "install" /\ hist.r = 0) =>
       \A e \in hist.log :
          (/\ TakenFile(e)
           /\ ~OwnedByOther(dbs, hist.old, hist.pkg, e.ae, APK_PKG_REPLACES_NO))
          => OneFileOf(dbs, PathOf(e.ae.name), hist.pkg)

\* C3 witness: an install that returned 0 after an entry took over the path
\* of another package's File.
C3_Witness ==
    /\ hist.op = "install" /\ hist.r = 0
    /\ \E e \in hist.log :
          /\ TakenFile(e)
          /\ OwnedByOther(dbs, hist.old, hist.pkg, e.ae, APK_PKG_REPLACES_YES)
          /\ OneFileOf(dbs, PathOf(e.ae.name), hist.pkg)

\* C4 as stated: an entry whose path is absolute, begins with ./ or ../,
\* contains /./ or /../, or contains a control character is skipped: nothing
\* is staged, no File and no DirInstance is made, and broken_files is set.
C4_MaliciousSkippedAndFlagged ==
    (hist.op = "install_file" /\ malicious_name(hist.ae.name)) =>
       /\ dbs.staged = hist.staged
       /\ DOMAIN dbs.files = hist.files
       /\ DOMAIN dbs.diris = hist.diris
       /\ dbs.ipkg[hist.pkg].broken_files

\* C5: after apk_db_purge_pkg(pkg, TRUE) no File of the index belongs to a
\* DirInstance of pkg, and stats.files has gone down by exactly the number
\* of Files pkg owned.
C5_PurgeEmptiesIndex ==
    hist.op = "remove" =>
       /\ \A f \in DOMAIN dbs.index :
             f \in DOMAIN dbs.files /\ dbs.files[f].diri \notin hist.diris
       /\ \A d \in hist.diris : d \notin DOMAIN dbs.diris
       /\ dbs.stats.files = hist.stats_files - Cardinality(hist.owned)

\* C5 witness: a package that owned a File has been removed while another
\* File is still counted.
C5_Witness ==
    /\ hist.op = "remove"
    /\ hist.owned # {}
    /\ dbs.stats.files > 0

\* The installer got as far as the ownership check with the entry.
ReachedOwnership(e) ==
    TakenFile(e) /\ e.out \notin {"nodirent", "nolink"}

\* C6, for one entry: a regular-file entry whose path another package owns
\* is, on CONFLICT without FORCE_OVERWRITE, not staged, marks the package
\* with broken_files and leaves the owner; on NO it is skipped and
\* broken_files is left as it was; on CONFLICT with FORCE_OVERWRITE it is
\* staged.
C6_Entry ==
    (/\ hist.op = "install_file"
     /\ ReachedOwnership([ae |-> hist.ae, out |-> hist.out])) =>
       /\ (/\ OwnedByOther(dbs, ctx.old, hist.pkg, hist.ae, APK_PKG_REPLACES_CONFLICT)
           /\ APK_FORCE_OVERWRITE \notin dbs.flags)
          => /\ dbs.staged = hist.staged
             /\ DOMAIN dbs.files = hist.files
             /\ dbs.ipkg[hist.pkg].broken_files
             /\ OneFileOf(dbs, PathOf(hist.ae.name), ctx.old[PathOf(hist.ae.name)].owner)
       /\ OwnedByOther(dbs, ctx.old, hist.pkg, hist.ae, APK_PKG_REPLACES_NO)
          => /\ dbs.staged = hist.staged
             /\ DOMAIN dbs.files = hist.files
             /\ dbs.ipkg[hist.pkg].broken_files = hist.broken_files
             /\ OneFileOf(dbs, PathOf(hist.ae.name), ctx.old[PathOf(hist.ae.name)].owner)
       /\ (/\ OwnedByOther(dbs, ctx.old, hist.pkg, hist.ae, APK_PKG_REPLACES_CONFLICT)
           /\ APK_FORCE_OVERWRITE \in dbs.flags
           /\ hist.ae.r \in {"OK", "ENOTSUP"})
          => Content(dbs.staged, PathOf(hist.ae.name)) = hist.ae.content

\* C6, for the transaction: after the install the owner in the index is
\* still the old package on CONFLICT without FORCE_OVERWRITE and on NO, and
\* is the new package, once the files are migrated, on CONFLICT with
\* FORCE_OVERWRITE.
C6_Install ==
    hist.op = "install" =>
       \A e \in hist.log :
          ReachedOwnership(e) =>
             /\ (\/ /\ OwnedByOther(dbs, hist.old, hist.pkg, e.ae, APK_PKG_REPLACES_CONFLICT)
                    /\ APK_FORCE_OVERWRITE \notin dbs.flags
                 \/ OwnedByOther(dbs, hist.old, hist.pkg, e.ae, APK_PKG_REPLACES_NO))
                => OneFileOf(dbs, PathOf(e.ae.name), hist.old[PathOf(e.ae.name)].owner)
             /\ (/\ OwnedByOther(dbs, hist.old, hist.pkg, e.ae, APK_PKG_REPLACES_CONFLICT)
                 /\ APK_FORCE_OVERWRITE \in dbs.flags
                 /\ hist.migrated)
                => OneFileOf(dbs, PathOf(e.ae.name), hist.pkg)

\* C6: apk_pkg_replaces_file and FORCE_OVERWRITE decide whether an entry
\* whose path another package owns is staged, whether broken_files is set,
\* and who owns the path after the install.
C6_ReplacesDecides == C6_Entry /\ C6_Install

\* C6 witness: with FORCE_OVERWRITE a conflicting entry has been staged and
\* migrated, and the new package owns the path.
C6_Witness ==
    /\ hist.op = "install" /\ hist.migrated
    /\ APK_FORCE_OVERWRITE \in dbs.flags
    /\ \E e \in hist.log :
          /\ ReachedOwnership(e)
          /\ OwnedByOther(dbs, hist.old, hist.pkg, e.ae, APK_PKG_REPLACES_CONFLICT)
          /\ OneFileOf(dbs, PathOf(e.ae.name), hist.pkg)

\* The records of the files the migrator found staged in a directory of
\* protect mode CHANGED.
StagedInProtected ==
    {rec \in dbs.ctl : /\ rec.op = "migrate"
                       /\ rec.mode = APK_PROTECT_CHANGED
                       /\ rec.staged # 0}

\* C7 as stated: in a directory of protect mode CHANGED a staged file whose
\* content equals the file on disk is committed or cancelled, never kept
\* as .apk-new, whatever the old entry and the flags.
C7_SameContentNeverApkNew ==
    \A rec \in StagedInProtected :
       rec.staged = rec.disk =>
          rec.ctrl \in {APK_FS_CTRL_COMMIT, APK_FS_CTRL_CANCEL}

\* The file on disk differs from the checksum of the entry the index holds
\* for the path.
DiskDiffersFromOld(rec) ==
    /\ rec.disk # 0
    /\ rec.owned
    /\ rec.ocsum.type # "NONE"
    /\ rec.ocsum.data # rec.disk

\* C8 as stated: in a directory of protect mode CHANGED a staged file that
\* differs from the file on disk, when the file on disk differs from the
\* checksum of the old entry, is kept as .apk-new.
C8_ModifiedGetsApkNew ==
    \A rec \in StagedInProtected :
       (rec.staged # rec.disk /\ DiskDiffersFromOld(rec))
       => rec.ctrl = APK_FS_CTRL_APKNEW

\* C8 amended: in a directory of protect mode CHANGED, when
\* APK_CLEAN_PROTECTED is not set, a staged file that differs from the file
\* on disk and whose File records the checksum of the staged content is kept
\* as .apk-new when the file on disk differs from the checksum of the entry
\* the index holds for the path.
C8_ModifiedGetsApkNewUnlessClean ==
    \A rec \in StagedInProtected :
       (/\ rec.staged # rec.disk
        /\ rec.csum.type # "NONE" /\ rec.csum.data = rec.staged
        /\ DiskDiffersFromOld(rec)
        /\ APK_CLEAN_PROTECTED \notin dbs.flags)
       => rec.ctrl = APK_FS_CTRL_APKNEW

\* C8 witness: a staged file was kept as .apk-new beside a file the user
\* had modified.
C8_Witness ==
    /\ hist.op = "install"
    /\ \E rec \in StagedInProtected :
          /\ rec.staged # rec.disk
          /\ rec.csum.data = rec.staged
          /\ <<rec.dir, rec.file>> \in DOMAIN hist.old
          /\ rec.pkg # hist.old[<<rec.dir, rec.file>>].owner
          /\ DiskDiffersFromOld(rec)
          /\ rec.ctrl = APK_FS_CTRL_APKNEW
          /\ Content(dbs.apknew, <<rec.dir, rec.file>>) = rec.staged
          /\ Content(dbs.disk, <<rec.dir, rec.file>>) = rec.disk

\* The records of the Files the purger found modified in a protected
\* directory.
ModifiedInProtected ==
    {rec \in dbs.ctl : /\ rec.op = "purge"
                       /\ ~apk_protect_mode_none(rec.mode)
                       /\ rec.audit # 0}

\* C9: when a package is purged, a File in a protected directory whose
\* content on disk no longer matches its checksum is deleted from disk only
\* if APK_PURGE is set; its File leaves the index in both cases.
C9_ModifiedKeptUnlessPurge ==
    hist.op = "remove" =>
       \A rec \in ModifiedInProtected :
          /\ APK_PURGE \notin dbs.flags =>
                /\ rec.ctrl = "SKIP"
                /\ Content(dbs.disk, <<rec.dir, rec.file>>)
                     = Content(hist.disk, <<rec.dir, rec.file>>)
          /\ APK_PURGE \in dbs.flags =>
                /\ rec.ctrl = APK_FS_CTRL_DELETE
                /\ Content(dbs.disk, <<rec.dir, rec.file>>) = 0
          /\ FilesAt(dbs, <<rec.dir, rec.file>>) = {}

\* C9 witness: without APK_PURGE a modified file of a removed package is
\* still on disk.
C9_Witness ==
    /\ hist.op = "remove"
    /\ APK_PURGE \notin dbs.flags
    /\ \E rec \in ModifiedInProtected :
          Content(dbs.disk, <<rec.dir, rec.file>>) # 0

\* What the FDB records of the package: its DirInstances in order with
\* their ACLs and, in order, their Files with ACLs and checksums; the
\* replaces priority, the name of the repository tag, and the flags.
TagName(db, id) == IF id = 0 THEN "" ELSE db.repo_tags[id]

FileFootprint(db, f) ==
    [name |-> db.files[f].name, acl |-> db.files[f].acl, csum |-> db.files[f].csum]

DiriFootprint(db, d) ==
    [name  |-> db.diris[d].dir.name,
     acl   |-> db.diris[d].acl,
     files |-> [j \in 1..Len(db.diris[d].owned_files) |->
                  FileFootprint(db, db.diris[d].owned_files[j])]]

Footprint(db, pkg) ==
    [installed |-> db.ipkg[pkg].installed,
     dirs  |-> [i \in 1..Len(db.ipkg[pkg].owned_dirs) |->
                  DiriFootprint(db, db.ipkg[pkg].owned_dirs[i])],
     replaces_priority |-> db.ipkg[pkg].replaces_priority,
     tag   |-> TagName(db, db.ipkg[pkg].repository_tag),
     flags |-> <<db.ipkg[pkg].broken_files, db.ipkg[pkg].broken_script,
                 db.ipkg[pkg].broken_xattr, db.ipkg[pkg].sha256_160>>]

\* C10: what apk_db_fdb_write emits for an installed package,
\* apk_db_fdb_read reads into an empty database as the same DirInstances
\* and Files in the same order, with the same ACLs, checksums, replaces
\* priority, repository tag and flags.
C10_FdbRoundTrip ==
    hist.op = "fdb_reread" =>
       /\ hist.r = 0
       /\ Footprint(hist.db2, hist.pkg) = Footprint(dbs, hist.pkg)

\* C10 witness: a round trip of a package with a priority, a tag, a flag,
\* two DirInstances, ACLs that are not the defaults and a checksum.
C10_Witness ==
    /\ hist.op = "fdb_reread"
    /\ dbs.ipkg[hist.pkg].replaces_priority = MaxPrio
    /\ dbs.ipkg[hist.pkg].repository_tag > 1
    /\ dbs.ipkg[hist.pkg].broken_xattr
    /\ Len(dbs.ipkg[hist.pkg].owned_dirs) = 2
    /\ \E d \in Range(dbs.ipkg[hist.pkg].owned_dirs) :
          /\ dbs.diris[d].acl = ACL_XATTR
          /\ \E f \in Range(dbs.diris[d].owned_files) :
                /\ dbs.files[f].acl = ACL_OTHER
                /\ dbs.files[f].csum.type = "MD5"
    /\ Footprint(hist.db2, hist.pkg) = Footprint(dbs, hist.pkg)

OpenWriters == {p \in Procs : dbs[p].st = "open" /\ APK_OPENF_WRITE \in dbs[p].open_flags}

\* C11 as stated: every process that has the root open with the WRITE flag
\* holds the exclusive flock, so at most one has it open for writing; a
\* process that opened without WRITE has no lock descriptor and no flock.
C11_WritersExclusive ==
    /\ \A p \in OpenWriters : held.flock = p
    /\ Cardinality(OpenWriters) <= 1
    /\ \A p \in Procs :
          dbs[p].st = "open" /\ APK_OPENF_WRITE \notin dbs[p].open_flags
             => dbs[p].lock_fd = 0 /\ held.flock # p

\* A process that opened with WRITE and CREATE while the lock file could not
\* be opened: it goes on without the lock.
CreatedUnlocked(p) == APK_OPENF_CREATE \in dbs[p].open_flags /\ dbs[p].lock_fd < 0

\* C11 amended: every process that has the root open with the WRITE flag
\* holds the exclusive flock, unless it opened with CREATE and the lock file
\* could not be opened; at most one such process exists at a time; a process
\* that opened without WRITE has no lock descriptor and no flock.
C11_WritersExclusiveUnlessCreate ==
    /\ \A p \in OpenWriters : ~CreatedUnlocked(p) => held.flock = p
    /\ Cardinality({p \in OpenWriters : ~CreatedUnlocked(p)}) <= 1
    /\ \A p \in Procs :
          dbs[p].st = "open" /\ APK_OPENF_WRITE \notin dbs[p].open_flags
             => dbs[p].lock_fd = 0 /\ held.flock # p

\* C11 witness: a process has the root open for writing and holds the flock
\* when the open for writing of another process has just failed.
C11_Witness ==
    /\ hist.op = "open"
    /\ hist.r < 0
    /\ APK_OPENF_WRITE \in hist.open_flags
    /\ APK_OPENF_CREATE \notin hist.open_flags
    /\ \E p \in OpenWriters : p # hist.p /\ held.flock = p /\ hist.flock = p

\* The last step was an apk_db_pkg_add of a package with a name and a
\* version whose digest was in the registry before.
AddedExisting ==
    /\ hist.op = "pkg_add"
    /\ hist.pkg.name # NULLSTR /\ hist.pkg.version # NULLSTR
    /\ hist.found # 0

\* C12: apk_db_pkg_add of a package whose digest is in the registry returns
\* the existing package, adds no registry entry and no provider record,
\* makes the existing package's repos the union of both (the new package
\* counting as cached when it has a filename), keeps a non-null filename and
\* ipkg and otherwise takes over those of the new package, with ipkg->pkg
\* set to the existing package; no two registry entries share a digest.
C12_PkgAddMerges ==
    /\ \A i, j \in 1..Len(dbs.packages) :
          i # j => dbs.pkgs[dbs.packages[i]].csum # dbs.pkgs[dbs.packages[j]].csum
    /\ AddedExisting =>
          /\ hist.idb = hist.found
          /\ dbs.packages = hist.before.packages
          /\ dbs.providers = hist.before.providers
          /\ DOMAIN dbs.pkgs = DOMAIN hist.before.pkgs
          /\ dbs.pkgs[hist.found].repos =
                hist.before.pkgs[hist.found].repos \union hist.pkg.repos
                \union (IF hist.pkg.filename # NULLSTR THEN {APK_REPOSITORY_CACHED} ELSE {})
          /\ dbs.pkgs[hist.found].filename =
                IF hist.before.pkgs[hist.found].filename # NULLSTR
                THEN hist.before.pkgs[hist.found].filename ELSE hist.pkg.filename
          /\ dbs.pkgs[hist.found].ipkg =
                IF hist.before.pkgs[hist.found].ipkg # 0
                THEN hist.before.pkgs[hist.found].ipkg ELSE hist.ip
          /\ dbs.pkgs[hist.found].ipkg # 0 =>
                dbs.ipkgs[dbs.pkgs[hist.found].ipkg].pkg = hist.found

\* C12 witness: a package with a filename and an ipkg is added when the
\* registry holds a package of the same digest that has both already, and
\* the new package brings a repository the existing one did not have.
C12_Witness ==
    /\ AddedExisting
    /\ hist.before.pkgs[hist.found].filename # NULLSTR
    /\ hist.before.pkgs[hist.found].ipkg # 0
    /\ hist.pkg.filename # NULLSTR /\ hist.ip # 0
    /\ ~(hist.pkg.repos \subseteq hist.before.pkgs[hist.found].repos)

\* C13 as stated: a Dir is returned by apk_db_dir_query for its name iff its
\* reference count is above zero.
C13_IndexedIffReferenced ==
    \A d \in DOMAIN dbs.dirs :
       (apk_db_dir_query(dbs, d.name) = d) <=> (dbs.dirs[d].refs > 0)

\* C13 amended: apk_db_dir_unref never takes a Dir out of the directory
\* index: a Dir whose reference count dropped to zero is still returned by
\* apk_db_dir_query for the name it was hashed under; installed.stats.dirs
\* counts the Dirs whose reference count is above zero.
C13_DeadDirStaysIndexed ==
    /\ \A d \in DOMAIN dbs.dirs : dbs.dirs[d].refs >= 0
    /\ dbs.stats.dirs = Cardinality({d \in DOMAIN dbs.dirs : dbs.dirs[d].refs > 0})
    /\ hist.op = "dir_unref" =>
          /\ hist.dir \in DOMAIN dbs.dirs
          /\ hist.dir.hash = apk_blob_hash(hist.dir.name) =>
                apk_db_dir_query(dbs, hist.dir.name) = hist.dir

\* C13 witness: apk_db_dir_unref has dropped the last reference to a Dir
\* and apk_db_dir_query still returns it.
C13_Witness ==
    /\ hist.op = "dir_unref"
    /\ hist.dir \in DOMAIN dbs.dirs
    /\ dbs.dirs[hist.dir].refs = 0
    /\ apk_db_dir_query(dbs, hist.dir.name) = hist.dir

\* The Dir an earlier apk_db_dir_get of the same argument has put in the
\* index: stored under the stripped name and the hash of the argument.
DirKeyOf(raw) == [name |-> StripSlash(raw), hash |-> dir_get_hash(raw)]

\* The last step was an apk_db_dir_get whose argument named a Dir that was
\* in the index with a reference count above zero.
GotLiveDir ==
    /\ hist.op = "dir_get"
    /\ DirKeyOf(hist.raw) \in DOMAIN hist.refs
    /\ hist.refs[DirKeyOf(hist.raw)] > 0

\* C14: apk_db_dir_get of a live directory returns the Dir already in the
\* index, raises its reference count by exactly one, creates no Dir, and
\* leaves installed.stats.dirs and every other reference count unchanged.
C14_DirGetLiveIdempotent ==
    GotLiveDir =>
       /\ hist.dir = DirKeyOf(hist.raw)
       /\ DOMAIN dbs.dirs = DOMAIN hist.refs
       /\ dbs.dirs[hist.dir].refs = hist.refs[hist.dir] + 1
       /\ \A d \in DOMAIN dbs.dirs \ {hist.dir} : dbs.dirs[d].refs = hist.refs[d]
       /\ dbs.stats.dirs = hist.stats_dirs

\* C14 witness: apk_db_dir_get has returned a live Dir that has a live
\* parent and a DirInstance.
C14_Witness ==
    /\ GotLiveDir
    /\ dbs.dirs[hist.dir].parent # NULLDIR
    /\ DirInstancesOn(dbs, hist.dir) # {}

\* The paths the index is asked for: those it holds and one it never holds.
IndexedPaths ==
    {<<FileDirName(dbs, f), dbs.files[f].name>> : f \in DOMAIN dbs.index}
    \cup {<<<<"v">>, <<"f">>>>}

\* C15 as stated: the file index holds at most one File per (directory
\* path, file name); apk_db_file_query returns that File, and NULL for a
\* path the index does not hold.
C15_OneFilePerPath ==
    \A k \in IndexedPaths :
       /\ Cardinality(FilesAt(dbs, k)) <= 1
       /\ apk_db_file_query(dbs, k[1], k[2]) = First(FilesAt(dbs, k))

\* How many times x occurs in the list l.
Occurrences(l, x) == Cardinality({i \in 1..Len(l) : l[i] = x})

\* The installed packages (the overlay included) that have the DirInstance
\* di in their owned-dirs list.
PkgsListing(db, di) ==
    {p \in DOMAIN db.ipkg :
        db.ipkg[p].installed /\ Occurrences(db.ipkg[p].owned_dirs, di) > 0}

\* C16 as stated: every File of the index is once in the owned-files list
\* of its file.diri and in no other list, and that DirInstance is once in
\* the owned-dirs list of exactly one installed package.
C16_FileLinkedOnce ==
    \A f \in DOMAIN dbs.index :
       /\ f \in DOMAIN dbs.files
       /\ dbs.files[f].diri \in DOMAIN dbs.diris
       /\ \A di \in DOMAIN dbs.diris :
             Occurrences(dbs.diris[di].owned_files, f)
                = IF di = dbs.files[f].diri THEN 1 ELSE 0
       /\ Cardinality(PkgsListing(dbs, dbs.files[f].diri)) = 1
       /\ \A p \in PkgsListing(dbs, dbs.files[f].diri) :
             /\ Occurrences(dbs.ipkg[p].owned_dirs, dbs.files[f].diri) = 1
             /\ dbs.diris[dbs.files[f].diri].pkg = p

\* The Files of the package's own DirInstances at the path k.
OwnFilesAt(db, pkg, k) ==
    {f \in DOMAIN db.files :
        /\ db.files[f].diri \in Range(db.ipkg[pkg].owned_dirs)
        /\ <<FileDirName(db, f), db.files[f].name>> = k}

\* C17 as stated: a hard link entry whose target is among the package's own
\* files is given a File that has the checksum of the target's File; a hard
\* link entry whose target is not among them is skipped and sets
\* broken_files.
C17_HardlinkChecksum ==
    (/\ hist.op = "install_file"
     /\ hist.ae.link_target # <<>>
     /\ hist.out # "nodirent") =>
       IF OwnFilesAt(dbs, hist.pkg, PathOf(hist.ae.link_target)) # {}
       THEN /\ hist.out = "staged"
            /\ \E f \in OwnFilesAt(dbs, hist.pkg, PathOf(hist.ae.name)),
                  t \in OwnFilesAt(dbs, hist.pkg, PathOf(hist.ae.link_target)) :
                  dbs.files[f].csum = dbs.files[t].csum
       ELSE /\ hist.out = "nolink"
            /\ dbs.ipkg[hist.pkg].broken_files

\* A line that is not blank and has no ':' as its second character.
NoColonLine(l) == Len(l) >= 1 /\ (Len(l) < 2 \/ l[2] # ":")

\* C18 as stated: apk_db_fdb_read fails with the format error for every text
\* with a non-blank line whose second character is not ':', a line of a
\* single character included; such a line never ends a package record.
C18_NoColonIsFormatError ==
    (/\ hist.op = "fdb_read_raw"
     /\ \E i \in 1..Len(hist.text) : NoColonLine(hist.text[i]))
    => hist.r < 0

\* The reader after the first i lines of the text read last.
RawPrefix(i) == fdb_read_raw_lines(RawDb(dbs.flags), FdbLocals, SubSeq(hist.text, 1, i))

FlagLetters == {"f", "s", "x", "S"}

\* The flag of the ipkg that letter c stands for.
FlagOf(ipkg, c) ==
    CASE c = "f" -> ipkg.broken_files
      [] c = "s" -> ipkg.broken_script
      [] c = "x" -> ipkg.broken_xattr
      [] c = "S" -> ipkg.sha256_160

\* An f: line with a letter that is no flag.
UnknownFlagLine(l) ==
    /\ Len(l) >= 2 /\ l[1] = "f" /\ l[2] = ":"
    /\ \E k \in 3..Len(l) : l[k] \notin FlagLetters

\* C19: an f: line with an unknown flag letter that the reader reaches makes
\* apk_db_fdb_read fail unless FORCE_OLD_APK is set; with FORCE_OLD_APK the
\* read goes on and every known letter of the line has set its flag.
C19_UnknownFlagLetter ==
    hist.op = "fdb_read_raw" =>
      \A i \in 1..Len(hist.text) :
         (UnknownFlagLine(hist.text[i]) /\ RawPrefix(i - 1).r = 0) =>
            IF APK_FORCE_OLD_APK \in dbs.flags
            THEN /\ RawPrefix(i).r = 0
                 /\ \A k \in 3..Len(hist.text[i]) :
                       hist.text[i][k] \in FlagLetters =>
                          FlagOf(RawPrefix(i).db.ipkg[RawPrefix(i).rs.pkg], hist.text[i][k])
            ELSE /\ RawPrefix(i).r < 0
                 /\ hist.r < 0

\* FORCE_OLD_APK is set and P:A, f:fzS was read: S, after the unknown z, is set.
C19_Witness ==
    /\ hist.op = "fdb_read_raw"
    /\ APK_FORCE_OLD_APK \in dbs.flags
    /\ hist.text = << <<"P", ":", "A">>, <<"f", ":", "f", "z", "S">> >>
    /\ hist.r = 0
    /\ dbs.ipkg["A"].installed
    /\ dbs.ipkg["A"].broken_files /\ dbs.ipkg["A"].sha256_160

\* The paths of the Files the DirInstances of pkg list.
FootprintOf(db, pkg) ==
    { <<db.diris[db.files[f].diri].dir.name, db.files[f].name>> :
        f \in UNION { Range(db.diris[d].owned_files) :
                        d \in Range(db.ipkg[pkg].owned_dirs) } }

\* The step of apk_db_install_pkg that follows a failed apk_db_unpack_pkg.
UnpackFailedStep ==
    /\ ctx.pc = "unpack" /\ ctx'.pc = "idle"
    /\ hist'.op = "install" /\ hist'.r # 0 /\ ~hist'.migrated

\* What a purge in cancel mode followed by the uninstall leaves.
CancelPurged ==
    /\ \A p \in FootprintOf(dbs, ctx.pkg) :
          \E c \in dbs'.ctl : /\ c.op = "purge" /\ c.dir = p[1] /\ c.file = p[2]
                              /\ c.ctrl = APK_FS_CTRL_CANCEL
    /\ \A c \in dbs'.ctl : c.op = "purge" => c.ctrl = APK_FS_CTRL_CANCEL
    /\ dbs'.index = dbs.index
    /\ dbs'.stats.files = dbs.stats.files
    /\ dbs'.ipkg[ctx.pkg] = NULLIPKG

\* C20 as stated: whenever unpacking the new package fails, its footprint is
\* purged in cancel mode (CANCEL for each of its files, no DELETE, the index
\* and stats.files as before), the package is uninstalled and nothing is
\* migrated.
C20_FailedUnpackCancelPurges == [][UnpackFailedStep => CancelPurged]_vars

\* The entry e of the log of an unpack failed: ownership conflict, rejected
\* path, no dirent, no hard link target, or an error of apk_fs_extract.
EntryFailed(e) ==
    \/ e.out \in {"conflict", "malicious", "nodirent", "nolink"}
    \/ e.out = "staged" /\ e.ae.r # "OK"

\* The failure of e is an error of apk_fs_extract with result r.
ExtractFailed(e, r) == e.out = "staged" /\ e.ae.r = r

SweepAdded(p) ==
    SubSeq(dbs.ipkg[p].pending_triggers,
           (IF hist.before[p] = 0 THEN 1 ELSE hist.before[p]) + 1,
           Len(dbs.ipkg[p].pending_triggers))

\* A '/'-rooted glob of p matches the rooted name of d, and d is modified or
\* p has run_all_triggers.
TriggerDue(p, d) ==
    /\ dbs.dirs[d].modified \/ dbs.ipkg[p].run_all_triggers
    /\ \E i \in 1..Len(dbs.ipkg[p].triggers) :
          /\ Len(dbs.ipkg[p].triggers[i]) > 0 /\ dbs.ipkg[p].triggers[i][1] = "/"
          /\ glob_match(dbs.ipkg[p].triggers[i], dbs.dirs[d].rooted_name)

\* C22: a sweep of apk_db_fire_triggers appends the rooted name of a Dir to
\* the pending_triggers of a trigger package once if one of its '/'-rooted
\* globs matches and the Dir is modified or the package has run_all_triggers,
\* and not at all otherwise; a non-empty pending_triggers starts with the one
\* NULL placeholder; the value returned is the number of packages with a
\* non-empty pending_triggers.
C22_FireTriggers ==
    hist.op = "fire" =>
      /\ \A p \in TrigPkgs :
            /\ \A d \in 1..Len(dbs.dirs) :
                  Occurrences(SweepAdded(p), dbs.dirs[d].rooted_name)
                    = IF TriggerDue(p, d) THEN 1 ELSE 0
            /\ dbs.ipkg[p].pending_triggers # <<>> =>
                  /\ dbs.ipkg[p].pending_triggers[1] = NULLNAME
                  /\ \A i \in 2..Len(dbs.ipkg[p].pending_triggers) :
                        dbs.ipkg[p].pending_triggers[i] # NULLNAME
      /\ hist.r = Cardinality({p \in TrigPkgs : dbs.ipkg[p].pending_triggers # <<>>})

\* After a second sweep T, whose globs /* and /m both match the modified /m,
\* has /m pending once more after the placeholder and what the first sweep
\* appended, and U, with the unrooted glob, has nothing pending.
C22_Witness ==
    /\ hist.op = "fire" /\ hist.before["T"] > 0
    /\ dbs.ipkg["T"].triggers = << <<"/", "*">>, <<"/", "m">> >>
    /\ dbs.dirs[2].modified /\ ~dbs.dirs[3].modified
    /\ ~dbs.ipkg["T"].run_all_triggers
    /\ SweepAdded("T") = << <<"/", "m">> >>
    /\ dbs.ipkg["U"].triggers = << <<"m", "/", "*">> >>
    /\ dbs.ipkg["U"].pending_triggers = <<>>
    /\ hist.r = 1

\* The counters of stale and unavailable repositories together.
RepoCounted == dbs.repositories.stale + dbs.repositories.unavailable

\* C23 as stated: every repository whose index fails to load leaves
\* available_repos, apk_db_add_repository returns 0 and a counter of stale or
\* unavailable repositories goes up, so that apk_db_repository_check fails
\* afterwards unless FORCE_MISSING_REPOSITORIES is set.
C23_LoadFailureCounted ==
    /\ (hist.op = "add" /\ hist.load # 0) =>
          /\ hist.repo_num \notin dbs.available_repos
          /\ hist.r = 0
          /\ RepoCounted > hist.counted
    /\ (hist.op = "check" /\ ctx.failed # {}) =>
          (hist.r # 0) = (APK_FORCE_MISSING_REPOSITORIES \notin dbs.flags)

\* C23, amended: the counter goes up by one for a remote repository only; a
\* local repository whose index fails to load leaves the counters as they
\* were, and apk_db_repository_check fails, FORCE_MISSING_REPOSITORIES
\* unset, if and only if a counter is not zero.
C23_RemoteLoadFailureCounted ==
    /\ (hist.op = "add" /\ hist.load # 0) =>
          /\ hist.repo_num \notin dbs.available_repos
          /\ hist.repo_num \notin dbs.allowed_repos
          /\ hist.r = 0
          /\ RepoCounted = hist.counted
                + (IF is_remote(dbs.repos[hist.repo_num]) THEN 1 ELSE 0)
    /\ (hist.op = "check" /\ \E k \in ctx.failed : is_remote(dbs.repos[k])) =>
          (hist.r # 0) = (APK_FORCE_MISSING_REPOSITORIES \notin dbs.flags)
    /\ (hist.op = "check" /\ hist.r # 0) => RepoCounted > 0

\* A remote repository failed to load, a local one loaded, and the check
\* refuses to go on.
C23_Witness ==
    /\ hist.op = "check" /\ hist.r # 0
    /\ dbs.num_repos = 3
    /\ \E k \in ctx.failed : is_remote(dbs.repos[k]) /\ k \notin dbs.available_repos
    /\ \E k \in dbs.available_repos \cap dbs.allowed_repos : ~is_remote(dbs.repos[k])
    /\ dbs.repositories.unavailable = 1

\* The positions of the log with an event of kind ev.
LogAt(ev) == {i \in 1..Len(hist.log) : hist.log[i].ev = ev}

PreScripts == {APK_SCRIPT_PRE_INSTALL, APK_SCRIPT_PRE_UPGRADE}
PostScripts == {APK_SCRIPT_POST_INSTALL, APK_SCRIPT_POST_UPGRADE}

\* The positions of the log where a script of one of the types was run.
ScriptAt(types) == {i \in LogAt("script") : hist.log[i].arg \in types}

\* Every position of S comes before every position of T.
AllBefore(S, T) == \A i \in S, j \in T : i < j

\* C24: the phases of apk_db_install_pkg come in a fixed order.  A removal
\* is pre-deinstall script, purge, post-deinstall script, uninstall.  In an
\* install or upgrade the pre script runs at most once and before the first
\* entry is staged, the entries are staged before the migration, the old
\* package is purged and uninstalled after the migration and only in an
\* upgrade, and the post script comes last.
C24_PhaseOrder ==
    /\ (ctx.pc = "done" /\ ctx.newpkg = NULLPKG /\ hist.log # <<>>) =>
          hist.log = << EvScript(APK_SCRIPT_PRE_DEINSTALL), EvPurge(ctx.oldpkg),
                        EvScript(APK_SCRIPT_POST_DEINSTALL), EvUninstall(ctx.oldpkg) >>
    /\ ctx.newpkg # NULLPKG =>
          /\ Cardinality(ScriptAt(PreScripts)) <= 1
          /\ AllBefore(ScriptAt(PreScripts), LogAt("stage"))
          /\ AllBefore(LogAt("stage"), LogAt("migrate"))
          /\ AllBefore(ScriptAt(PreScripts), LogAt("migrate"))
          /\ AllBefore(LogAt("migrate"), LogAt("purge"))
          /\ AllBefore(LogAt("purge"), LogAt("uninstall"))
          /\ LogAt("purge") # {} =>
                /\ ctx.oldpkg \notin {NULLPKG, ctx.newpkg}
                /\ \A i \in LogAt("purge") : hist.log[i].arg = ctx.oldpkg
                /\ LogAt("stage") # {} => LogAt("migrate") # {}
          /\ \A i \in ScriptAt(PostScripts) : i = Len(hist.log)
          /\ (ctx.pc = "done" /\ ctx.r = 0) =>
                /\ ScriptAt(PostScripts) # {}
                /\ hist.log[Len(hist.log)].arg =
                      IF ctx.oldpkg = NULLPKG THEN APK_SCRIPT_POST_INSTALL
                      ELSE APK_SCRIPT_POST_UPGRADE

\* An upgrade of B to A whose archive had the pre-upgrade script and two
\* entries: script, stage, stage, migrate, purge B, uninstall B, post-upgrade.
C24_Witness ==
    /\ ctx.pc = "done" /\ ctx.r = 0 /\ ctx.oldpkg = "B" /\ ctx.newpkg = "A"
    /\ Len(hist.log) = 7
    /\ hist.log[1] = EvScript(APK_SCRIPT_PRE_UPGRADE)
    /\ hist.log[2].ev = "stage" /\ hist.log[3].ev = "stage"
    /\ hist.log[4] = EvMigrate("A")
    /\ hist.log[5] = EvPurge("B") /\ hist.log[6] = EvUninstall("B")
    /\ hist.log[7] = EvScript(APK_SCRIPT_POST_UPGRADE)
    /\ dbs = {"A"}

\* What holds of the last apk_db_open with WRITE that met the lock held by
\* another process: without lock_wait it has failed at once, with lock_wait
\* it blocks; an open that has failed has left the database closed and holds
\* no lock.
LockAttemptSafe ==
    /\ (/\ hist.op \in {"open", "wait"} /\ ~hist.waited
        /\ APK_OPENF_WRITE \in hist.open_flags
        /\ hist.flock \notin {0, hist.p}) =>
          IF hist.lock_wait = 0
          THEN hist.op = "open" /\ hist.r = -1
          ELSE hist.op = "wait" /\ dbs[hist.p].st = "waiting" /\ held.flock = hist.flock
    /\ (hist.op = "open" /\ hist.r = -1) =>
          /\ dbs[hist.p] = ClosedDb
          /\ held.flock # hist.p
    /\ \A p \in Procs : dbs[p].st = "waiting" => held.flock # p

\* C25: an apk_db_open with WRITE that finds the lock held by another
\* process fails at once if lock_wait is 0 and blocks otherwise; every
\* blocked open returns in the end, with the lock or, when the alarm fires,
\* with an error; a failed open holds no lock and leaves the database closed.
C25_LockedOpenReturns ==
    /\ []LockAttemptSafe
    /\ \A p \in Procs : (dbs[p].st = "waiting") ~> (dbs[p].st # "waiting")

\* Process 2 was blocked on the lock of process 1, its alarm has fired and
\* its open has failed: process 1 still has the lock, process 2 is closed.
C25_Witness ==
    /\ hist.op = "open" /\ hist.p = 2 /\ hist.waited /\ hist.r = -1
    /\ hist.flock = 1 /\ held.flock = 1
    /\ dbs[1].st = "open" /\ dbs[2] = ClosedDb

\* The priorities of the passes of apk_db_migrate_files for pkg, from the
\* pass of priority prio on.
RECURSIVE MigratePasses(_, _)
MigratePasses(pkg, prio) ==
    IF prio = APK_FS_PRIO_DONE THEN <<>>
    ELSE <<prio>> \o MigratePasses(pkg, migrate_next_priority(
                                          dbs, prio, dbs.ipkg[pkg].owned_dirs,
                                          APK_FS_PRIO_DONE))

\* The DirInstance d of the package was handled: its Dir is modified and the
\* index gives the paths of its Files to these Files.
DiriMigrated(d) ==
    /\ dbs.dirs[dbs.diris[d].dir].modified
    /\ \A f \in Range(dbs.diris[d].owned_files) :
          apk_db_file_query(dbs, dbs.diris[d].dir.name, dbs.files[f].name) = f

\* C26: the passes of apk_db_migrate_files start at DISK and go up strictly
\* until none is left, and every DirInstance of the package, with its Files,
\* is handled in the one pass that has the priority of its directory.
C26_MigratePasses ==
    (hist.op = "install" /\ hist.migrated) =>
       /\ MigratePasses(hist.pkg, APK_FS_PRIO_DISK)[1] = APK_FS_PRIO_DISK
       /\ \A i \in 2..Len(MigratePasses(hist.pkg, APK_FS_PRIO_DISK)) :
             MigratePasses(hist.pkg, APK_FS_PRIO_DISK)[i - 1]
               < MigratePasses(hist.pkg, APK_FS_PRIO_DISK)[i]
       /\ \A d \in Range(dbs.ipkg[hist.pkg].owned_dirs) :
             /\ Occurrences(MigratePasses(hist.pkg, APK_FS_PRIO_DISK),
                            apk_fsdir_priority(dbs.diris[d].dir.name)) = 1
             /\ DiriMigrated(d)

\* The package has a DirInstance with a File on the disk and one with a File
\* in a uvol directory, and both were migrated in two passes.
C26_Witness ==
    /\ hist.op = "install" /\ hist.migrated
    /\ MigratePasses(hist.pkg, APK_FS_PRIO_DISK) = <<APK_FS_PRIO_DISK, APK_FS_PRIO_UVOL>>
    /\ \E d1, d2 \in Range(dbs.ipkg[hist.pkg].owned_dirs) :
          /\ apk_fsdir_priority(dbs.diris[d1].dir.name) = APK_FS_PRIO_DISK
          /\ apk_fsdir_priority(dbs.diris[d2].dir.name) = APK_FS_PRIO_UVOL
          /\ dbs.diris[d1].owned_files # <<>> /\ dbs.diris[d2].owned_files # <<>>
          /\ DiriMigrated(d1) /\ DiriMigrated(d2)

\* The records of the control actions of the migration that just ended.
Migrated ==
    IF hist.op = "install" /\ hist.migrated
    THEN {rec \in dbs.ctl : rec.op = "migrate"}
    ELSE {}

\* The index gives the path of the record to a File of the package that was
\* migrated: to the File of the record, or to a later File of the package
\* with the same path, which took the path from it in the same way.
ClaimedInIndex(rec) ==
    /\ apk_db_file_query(dbs, rec.dir, rec.file) # 0
    /\ dbs.diris[dbs.files[apk_db_file_query(dbs, rec.dir, rec.file)].diri].pkg = rec.pkg
    /\ \/ apk_db_file_query(dbs, rec.dir, rec.file) = rec.fid
       \/ \E later \in Migrated :
             /\ later.dir = rec.dir /\ later.file = rec.file
             /\ later.fid = apk_db_file_query(dbs, rec.dir, rec.file)

\* C27: the migrator cancels a staged file whose path the index gives to an
\* overlay entry, commits a staged file in an unprotected directory whose
\* path a named package or nobody owns, and after a control action that
\* failed the package has broken_files and still owns the path in the index.
C27_MigrateControl ==
    \A rec \in Migrated :
       /\ rec.overlay => rec.ctrl = APK_FS_CTRL_CANCEL
       /\ (~rec.overlay /\ apk_protect_mode_none(rec.mode))
            => rec.ctrl = APK_FS_CTRL_COMMIT
       /\ rec.r < 0 => /\ dbs.ipkg[rec.pkg].broken_files
                       /\ ClaimedInIndex(rec)

\* C27 witness: one migration cancelled a file of an overlay,
\* and a commit in an unprotected directory failed on a path the package
\* took from another owner.
C27_Witness ==
    /\ \E rec \in Migrated : rec.overlay /\ rec.ctrl = APK_FS_CTRL_CANCEL
    /\ \E rec \in Migrated :
          /\ ~rec.overlay /\ apk_protect_mode_none(rec.mode)
          /\ rec.ctrl = APK_FS_CTRL_COMMIT /\ rec.r < 0
          /\ ClaimedInIndex(rec)

\* The handler that just ran is apk_db_install_file with an entry that is
\* not a directory and passed the checks of its name.
FileEntryTaken ==
    /\ hist.op = "install_file"
    /\ hist.ae.mode # "dir"
    /\ ~dot_name(hist.ae.name)
    /\ ~malicious_name(hist.ae.name)

\* The DirInstances of the package of the entry for the directory of the
\* entry.
EntryDiris ==
    {d \in Range(dbs.ipkg[hist.pkg].owned_dirs) :
        dbs.diris[d].dir.name = PathOf(hist.ae.name)[1]}

\* C28 as stated: after a file entry the package has a DirInstance for the
\* directory of the entry, found or created, and the entry was not rejected
\* for the lack of one, whatever the directory.
C28_LocateOrCreateDiri ==
    FileEntryTaken => /\ EntryDiris # {}
                      /\ hist.out # "nodirent"

\* C28 amended: a DirInstance the package has for the directory of a file
\* entry is used as it is; when it has none, one is created only for the
\* archive root (the name has no '/'), and an entry in any other directory is
\* rejected: broken_files is set, no DirInstance and no File is created.
C28_LocateOrCreateRootDiri ==
    FileEntryTaken =>
       IF EntryDiris \cap hist.diris # {}
       THEN /\ hist.out # "nodirent"
            /\ DOMAIN dbs.diris = hist.diris
       ELSE IF ~apk_blob_rsplit(hist.ae.name).found
       THEN /\ hist.out # "nodirent"
            /\ Cardinality(EntryDiris) = 1
            /\ DOMAIN dbs.diris = hist.diris \cup EntryDiris
       ELSE /\ hist.out = "nodirent"
            /\ dbs.ipkg[hist.pkg].broken_files
            /\ DOMAIN dbs.diris = hist.diris
            /\ DOMAIN dbs.files = hist.files

\* C28 witness: a file at the archive root was staged in a DirInstance the
\* handler created for it.
C28_Witness ==
    /\ FileEntryTaken
    /\ hist.out = "staged"
    /\ EntryDiris # {}
    /\ EntryDiris \cap hist.diris = {}

\* The live directories whose permissions are stale when the second half of
\* apk_db_update_directory_permissions starts.
StaleDirs ==
    {d \in DOMAIN hist.mid.dirs :
        hist.mid.dirs[d].refs > 0 /\ hist.mid.dirs[d].permissions_stale}

\* The call of apk_fsdir_update_perms for d passed the ACL of its owner.
CalledWithOwnerAcl(d) ==
    /\ hist.mid.dirs[d].owner # 0
    /\ \E c \in hist.calls :
          /\ c.dir = d.name
          /\ c.mode = apk_db_dir_get_mode(hist.usermode,
                                          hist.mid.diris[hist.mid.dirs[d].owner].acl.mode)
          /\ c.uid = hist.mid.diris[hist.mid.dirs[d].owner].acl.uid
          /\ c.gid = hist.mid.diris[hist.mid.dirs[d].owner].acl.gid

\* The outcome of the call for d: done (modified, no longer stale) or failed
\* (still stale).
PermsDone(d) == dbs.dirs[d].modified /\ ~dbs.dirs[d].permissions_stale
PermsFailed(d) == dbs.dirs[d].permissions_stale

\* C29 as stated: apk_db_update_directory_permissions returns with both
\* DB-wide flags clear; when dirperms_stale is set and SIMULATE is off it
\* calls apk_fsdir_update_perms with the owner's ACL for exactly the live
\* directories with permissions_stale, each success sets modified and clears
\* the stale flag, each failure leaves the stale flag and counts as one
\* error of the value returned.
C29_UpdateDirectoryPermissions ==
    hist.op = "update_permissions" =>
       /\ ~hist.null
       /\ ~dbs.dirowner_stale /\ ~dbs.dirperms_stale
       /\ (hist.mid.dirperms_stale /\ APK_SIMULATE \notin hist.mid.flags) =>
             /\ {c.dir : c \in hist.calls} = {d.name : d \in StaleDirs}
             /\ \A d \in StaleDirs :
                   /\ CalledWithOwnerAcl(d)
                   /\ PermsDone(d) \/ PermsFailed(d)
             /\ hist.errors = Cardinality({d \in StaleDirs : PermsFailed(d)})
       /\ ~(hist.mid.dirperms_stale /\ APK_SIMULATE \notin hist.mid.flags) =>
             hist.calls = {} /\ hist.errors = 0

\* The Dir of the DirInstance that was applied, its owner before the call,
\* and whether the package of that owner keeps the directory.
AppliedDir == hist.pre.diris[hist.diri].dir
OwnerBefore == hist.pre.dirs[AppliedDir].owner
OwnerKeeps ==
    /\ OwnerBefore # 0
    /\ apk_pkg_replaces_dir(hist.pre, hist.pre.diris[OwnerBefore].pkg,
                            hist.pre.diris[hist.diri].pkg) # APK_PKG_REPLACES_YES

\* The ACL of the DirInstance differs from the ACL of the owner before the
\* call, or there was no owner.
AclChanged ==
    \/ OwnerBefore = 0
    \/ hist.pre.diris[OwnerBefore].acl # hist.pre.diris[hist.diri].acl

\* The call changed nothing but the owner of the Dir.
OnlyOwnerSet == dbs = [hist.pre EXCEPT !.dirs[AppliedDir].owner = hist.diri]

\* The call set the owner, permissions_stale of the Dir and dirperms_stale.
OwnerSetAndStale ==
    dbs = [hist.pre EXCEPT !.dirs[AppliedDir].owner = hist.diri,
                           !.dirs[AppliedDir].permissions_stale = TRUE,
                           !.dirperms_stale = TRUE]

\* C30 as stated: apk_db_dir_apply_diri_permissions changes nothing when the
\* owner's package is not replaced by the package of diri; otherwise diri
\* becomes the owner, and whenever its ACL differs from the ACL of the owner
\* before (or there was none) the Dir is marked permissions_stale and
\* dirperms_stale is set.
C30_ApplyDiriPermissions ==
    hist.op = "apply" =>
       IF OwnerKeeps THEN dbs = hist.pre
       ELSE IF AclChanged THEN OwnerSetAndStale
       ELSE OnlyOwnerSet

\* C30 amended: the stale flags are set only for a Dir that has
\* permissions_ok; for a Dir without it the owner is replaced and nothing
\* is marked, whatever the ACLs.
C30_ApplyDiriPermissionsIfOk ==
    hist.op = "apply" =>
       IF OwnerKeeps THEN dbs = hist.pre
       ELSE IF hist.pre.dirs[AppliedDir].permissions_ok /\ AclChanged
       THEN OwnerSetAndStale
       ELSE OnlyOwnerSet

\* C30 witness: a DirInstance became the owner of a Dir that had
\* permissions_ok and no owner, and the Dir and the database were marked.
C30_Witness ==
    /\ hist.op = "apply"
    /\ ~OwnerKeeps /\ AclChanged
    /\ hist.pre.dirs[AppliedDir].permissions_ok
    /\ ~hist.pre.dirs[AppliedDir].permissions_stale
    /\ ~hist.pre.dirperms_stale
    /\ OwnerSetAndStale

\* The step is a call of apk_db_dir_unref by an outside caller.
DirUnrefStep == hist'.op = "dir_unref"

\* The Dirs whose count the step took to 0: the Dir of the call and, when
\* it died, its ancestors that died with it.
DiedInStep == {d \in DOMAIN dbs.dirs : dbs.dirs[d].refs > 0 /\ dbs'.dirs[d].refs = 0}

\* The step left the count of the Dir above 0 and changed nothing else.
OnlyCounted ==
    dbs' = [dbs EXCEPT !.dirs[hist'.dir].refs = @ - 1, !.rmdir = {}, !.ctl = {}]

\* The step took the count of the Dir to 0: the Dir is cleared, its parent
\* lost one reference, and rmdir was tried for exactly the Dirs that died, if
\* the mode is REMOVE and SIMULATE is off, never for the root.
DroppedToZero ==
    /\ dbs'.dirs[hist'.dir].refs = 0
    /\ ~dbs'.dirs[hist'.dir].created
    /\ ~dbs'.dirs[hist'.dir].permissions_ok
    /\ ~dbs'.dirs[hist'.dir].permissions_stale
    /\ Len(hist'.dir.name) # 0 =>
          dbs'.dirs[dbs.dirs[hist'.dir].parent].refs
             = dbs.dirs[dbs.dirs[hist'.dir].parent].refs - 1
    /\ dbs'.rmdir = IF hist'.mode = APK_DIR_REMOVE /\ APK_SIMULATE \notin dbs.flags
                    THEN {d.name : d \in {x \in DiedInStep : Len(x.name) # 0}}
                    ELSE {}
    /\ \A d \in DOMAIN dbs.dirs \ DiedInStep :
          d # dbs.dirs[hist'.dir].parent => dbs'.dirs[d].refs = dbs.dirs[d].refs

\* C31: apk_db_dir_unref tries the rmdir of a directory only when the call
\* drops its count to 0, the mode is REMOVE, SIMULATE is off and it is not
\* the root; reaching 0 resets created, permissions_ok and permissions_stale
\* and unrefs the parent once with the same mode; a call that leaves the
\* count above 0 changes only the count.
C31_DirUnref ==
    [][DirUnrefStep =>
         IF dbs.dirs[hist'.dir].refs > 1 THEN OnlyCounted ELSE DroppedToZero]_vars

\* C31 witness: a call with REMOVE took e/x and, through it, e to 0: rmdir
\* was tried for both, the root lost nothing but lives on.
C31_Witness ==
    /\ hist.op = "dir_unref" /\ hist.mode = APK_DIR_REMOVE
    /\ hist.dir.name = <<"e", "/", "x">>
    /\ dbs.dirs[hist.dir].refs = 0
    /\ dbs.rmdir = { <<"e">>, <<"e", "/", "x">> }
    /\ \A d \in DOMAIN dbs.dirs : d.name = <<"e">> => dbs.dirs[d].refs = 0

\* The DirInstances of the installed packages before the close.
InstalledDiris(db) ==
    UNION {Range(db.ipkg[p].owned_dirs) : p \in {q \in Pkgs : db.ipkg[q].installed}}

\* What apk_db_close does not do: no rmdir, no Dir marked modified; and what
\* it does: every DirInstance of an installed package is freed.
ClosedQuietly ==
    /\ dbs.rmdir = {}
    /\ \A d \in DOMAIN dbs.dirs : dbs.dirs[d].modified = hist.pre.dirs[d].modified
    /\ InstalledDiris(hist.pre) \cap DOMAIN dbs.diris = {}

\* C32 as stated, for a close at which no outside caller holds a reference:
\* apk_db_close frees every DirInstance of every installed package without
\* rmdir and without marking a Dir modified, and afterwards every Dir has
\* the count 0.
C32_CloseFreesAll ==
    (hist.op = "close" /\ DOMAIN held = {}) =>
       /\ ClosedQuietly
       /\ \A d \in DOMAIN dbs.dirs : dbs.dirs[d].refs = 0

\* The mode of a directory under the default protected paths, as the
\* statement lists it: etc, etc/init.d, etc/apk, below etc, outside etc.
RECURSIVE DefaultMode(_)
DefaultMode(name) ==
    CASE name = <<"e">>           -> APK_PROTECT_CHANGED
      [] name = <<"e", "/", "i">> -> APK_PROTECT_SYMLINKS_ONLY
      [] name = <<"e", "/", "a">> -> APK_PROTECT_ALL
      [] OTHER ->
           IF StartsWith(name, <<"e", "/">>)
           THEN DefaultMode(apk_blob_rsplit(name).l)
           ELSE APK_PROTECT_NONE

\* The patterns a directory inherits for its level: the configured list at
\* the top, below it the rest of each pattern the parent inherited of which
\* the first segment is the basename of the parent.
RECURSIVE InheritedPatterns(_)
InheritedPatterns(name) ==
    IF ~apk_blob_rsplit(name).found THEN dbs.protected_paths
    ELSE SelectSeq(
           [i \in 1..Len(InheritedPatterns(apk_blob_rsplit(name).l)) |->
              [relative_pattern |->
                 IF FirstIdx(InheritedPatterns(apk_blob_rsplit(name).l)[i].relative_pattern,
                             SLASH) = 0
                    \/ SubSeq(InheritedPatterns(apk_blob_rsplit(name).l)[i].relative_pattern, 1,
                              FirstIdx(InheritedPatterns(apk_blob_rsplit(name).l)[i].relative_pattern,
                                       SLASH) - 1)
                         # apk_blob_rsplit(apk_blob_rsplit(name).l).r
                 THEN <<>>
                 ELSE SubSeq(InheritedPatterns(apk_blob_rsplit(name).l)[i].relative_pattern,
                             FirstIdx(InheritedPatterns(apk_blob_rsplit(name).l)[i].relative_pattern,
                                      SLASH) + 1,
                             Len(InheritedPatterns(apk_blob_rsplit(name).l)[i].relative_pattern)),
               protect_mode |-> InheritedPatterns(apk_blob_rsplit(name).l)[i].protect_mode]],
           LAMBDA pp : pp.relative_pattern # <<>>)

\* The single-segment patterns among them that match the basename.
MatchingPatterns(name) ==
    SelectSeq(InheritedPatterns(name),
              LAMBDA pp : pp.relative_pattern = apk_blob_rsplit(name).r)

\* The mode of a directory in general: the mode of the last matching
\* pattern, the mode of the parent when none matches (NONE at the top).
RECURSIVE GeneralMode(_)
GeneralMode(name) ==
    IF MatchingPatterns(name) # <<>>
    THEN MatchingPatterns(name)[Len(MatchingPatterns(name))].protect_mode
    ELSE IF apk_blob_rsplit(name).found THEN GeneralMode(apk_blob_rsplit(name).l)
    ELSE APK_PROTECT_NONE

\* C33: every live directory has the mode the protected paths give it: with
\* the defaults CHANGED for etc, SYMLINKS_ONLY for etc/init.d, ALL for
\* etc/apk, the parent's mode below etc and NONE outside of it; in general
\* the parent's mode unless a single-segment pattern inherited for its level
\* matches its basename, the last one winning.
C33_ProtectMode ==
    \A d \in DOMAIN dbs.dirs :
       (dbs.dirs[d].refs > 0 /\ Len(d.name) > 0) =>
          /\ dbs.dirs[d].protect_mode = GeneralMode(d.name)
          /\ dbs.protected_paths = protected_paths
               => dbs.dirs[d].protect_mode = DefaultMode(d.name)

\* C33 witness: under the defaults a directory below etc/init.d is live and
\* has the mode of etc/init.d.
C33_Witness ==
    /\ dbs.protected_paths = protected_paths
    /\ \E d \in DOMAIN dbs.dirs :
          /\ d.name = <<"e", "/", "i", "/", "x">>
          /\ dbs.dirs[d].refs > 0
          /\ dbs.dirs[d].protect_mode = APK_PROTECT_SYMLINKS_ONLY

\* The names that occur in the dependency array deps.
DepNames(deps) == {deps[i].name : i \in 1..Len(deps)}

NoRepeat(a) == \A i, j \in 1..Len(a) : a[i] = a[j] => i = j

\* Some name of the registry has a provider set that touches more names than
\* the touched array holds.
TouchedOverflow ==
    \E n \in RdepNames :
       Cardinality(name_rdepends_walked(dbs.names, dbs.pkgs, n)) > MaxTouched

\* C34: once the recomputation over all names has run at the end of the open,
\* the name of every package is in the rdepends of each name it depends on
\* and in the rinstall_if of each name of its install_if, no rdepends or
\* rinstall_if array holds a name twice, and the scratch state of every name
\* is 0, also when the providers of one name touch more names than the
\* touched array holds.
C34_Rdepends ==
    dbs.open_complete =>
       /\ \A i \in 1..Len(dbs.pkgs) :
             /\ \A n \in DepNames(dbs.pkgs[i].depends) :
                   dbs.pkgs[i].name \in Range(dbs.names[n].rdepends)
             /\ \A n \in DepNames(dbs.pkgs[i].install_if) :
                   dbs.pkgs[i].name \in Range(dbs.names[n].rinstall_if)
       /\ \A n \in RdepNames :
             /\ NoRepeat(dbs.names[n].rdepends)
             /\ NoRepeat(dbs.names[n].rinstall_if)
             /\ dbs.names[n].state_int = 0

C34_Witness ==
    /\ hist.op = "rdepends"
    /\ Len(dbs.pkgs) = 2
    /\ TouchedOverflow
    /\ \E n \in RdepNames : Len(dbs.names[n].rdepends) = 2

\* Line i of text has an R: line before it with no F: line and no end of
\* record in between: the current directory of the current record has a
\* current file.
HasCurrentFile(text, i) ==
    \E j \in 1..(i - 1) :
       /\ text[j].f = "R"
       /\ \A k \in (j + 1)..(i - 1) : text[k].f \notin {"F", ""}

\* Line i of text is a Z: or a: line without a current file, and the reader
\* gets as far as this line.
StrayFileLine(text, i) ==
    /\ text[i].f \in {"Z", "a"}
    /\ ~HasCurrentFile(text, i)
    /\ apk_db_fdb_read(RawDb({}), SubSeq(text, 1, i - 1)).r = 0

\* C35: a Z: or a: line with no R: line before it in the current F:
\* directory of the current package record makes apk_db_fdb_read fail, and
\* the Files are left as the lines before it made them.
C35_StrayFileLineRejected ==
    hist.op = "fdb_read_file" =>
       \A i \in 1..Len(hist.text) :
          StrayFileLine(hist.text, i) =>
             /\ hist.r # 0
             /\ dbs.files = apk_db_fdb_read(RawDb({}), SubSeq(hist.text, 1, i - 1)).db.files

\* The owner of the Dir d of db is NULL or a DirInstance of the heap that is
\* a DirInstance of d.
OwnerLive(db, d) ==
    \/ db.dirs[d].owner = 0
    \/ /\ db.dirs[d].owner \in DOMAIN db.diris
       /\ db.diris[db.dirs[d].owner].dir = d

\* The DirInstances of the Dir d.
DirDiris(db, d) == {i \in DOMAIN db.diris : db.diris[i].dir = d}

\* C36: the owner of a directory is NULL or one of its DirInstances, never a
\* freed one, and when apk_db_update_directory_permissions has returned
\* every directory that has a DirInstance has one of them as its owner.
C36_OwnerOfDirectory ==
    /\ \A d \in DOMAIN dbs.dirs : OwnerLive(dbs, d)
    /\ hist.op = "update_permissions" /\ ~hist.null =>
          \A d \in DOMAIN dbs.dirs :
             DirDiris(dbs, d) # {} => dbs.dirs[d].owner \in DirDiris(dbs, d)

\* C37: every live directory with permissions_stale that
\* apk_db_update_directory_permissions visits (dirperms_stale set, SIMULATE
\* off) has an owner when update_permissions reads the owner's ACL, also
\* when the package that owned it was purged and only the directories of
\* other packages below it keep it alive.
C37_VisitedDirHasOwner ==
    /\ hist.op = "update_permissions"
    /\ hist.mid.dirperms_stale
    /\ APK_SIMULATE \notin hist.mid.flags
    => \A d \in StaleDirs : hist.mid.dirs[d].owner # 0

\* C38: installed.stats.files is the number of Files in the file index and
\* installed.stats.dirs the number of Dirs with a reference count above 0,
\* after the reads of the open and after every install step, purge and
\* unref.
C38_StatsCount ==
    /\ dbs.stats.files = Cardinality(DOMAIN dbs.index)
    /\ dbs.stats.dirs = Cardinality({d \in DOMAIN dbs.dirs : dbs.dirs[d].refs > 0})

\* The purge of an installed package that owned Files has run after the
\* install of another package, whose File is left in the index.
C38_Witness ==
    /\ hist.op = "remove"
    /\ hist.owned # {}
    /\ dbs.stats.files > 0
    /\ dbs.stats.dirs > 0

\* The packages the callback was invoked for, in the order of the calls.
CalledPkgs == SelectSeq(hist.calls, LAMBDA p : p # 0)

\* C39: when __apk_db_foreach_sorted_package has returned, on the direct
\* path or after the fallback to the full walk, no package has its seen
\* flag set, and the callback was invoked at most once per package and in
\* display order.
C39_ForeachSortedPackage ==
    hist.op = "foreach_sorted" =>
       /\ \A p \in DOMAIN dbs.pkgs : ~dbs.pkgs[p].seen
       /\ \A i, j \in 1..Len(CalledPkgs) :
             i < j => pkg_cmp_display_less(dbs, CalledPkgs[i], CalledPkgs[j])

\* C40: the header adb_compress writes for DEFLATE, ZSTD, ZSTD_FAST and
\* ZSTD_SLOW has 4 bytes, and adb_decompress takes it from the stream and
\* reports that compression; for NONE no header is written, and a stream
\* that begins with "ADB." is passed on with nothing taken and reported as
\* NONE; a stream that does not begin with "ADB", or whose fourth byte is
\* none of the known ones, gives an error, the stream closed and the
\* compression not assigned.
C40_AdbHeader ==
    /\ hist.op = "adb_read" /\ dbs.comp # ADB_COMP_NONE =>
          /\ Len(hist.header) = 4
          /\ hist.is.err = "" /\ ~hist.is.closed
          /\ hist.is.consumed = 4
          /\ hist.is.compression = dbs.comp
    /\ hist.op = "adb_read" /\ dbs.comp = ADB_COMP_NONE =>
          hist.header = <<>>
    /\ hist.op \in {"adb_read", "adb_input"} /\ StartsWith(dbs.file, <<"A", "D", "B", ".">>) =>
          /\ hist.is.err = "" /\ ~hist.is.closed
          /\ hist.is.consumed = 0
          /\ hist.is.compression = ADB_COMP_NONE
    /\ /\ hist.op = "adb_input"
       /\ \/ ~StartsWith(dbs.file, <<"A", "D", "B">>)
          \/ Len(dbs.file) >= 4 /\ dbs.file[4] \notin {".", "d", "z", "Z", "s"}
       => /\ hist.is.err # "" /\ hist.is.closed
          /\ hist.is.compression = COMP_UNSET

\* A stream written with ZSTD was read back.
C40_Witness ==
    /\ hist.op = "adb_read"
    /\ dbs.comp = ADB_COMP_ZSTD
    /\ hist.is.compression = ADB_COMP_ZSTD

=============================================================================
